---- MODULE Spec2Model ----
(***************************************************************************)
(* kwachatracker-backend: the transaction store and its ingestion (Sync),  *)
(* the user table operations that gate it (Register, UpdateConsent,        *)
(* DeleteData), the transaction listing's pagination, and the insight      *)
(* pipeline (on-demand GenerateInsights and the daily sweep).              *)
(*                                                                         *)
(* The relational store is PostgreSQL behind database/sql and lib/pq       *)
(* (database.go:8,17): statements on database.DB autocommit, statements on *)
(* a tx become visible at Commit, a failed statement puts its transaction  *)
(* in the failed state, and a Commit of a failed transaction rolls back    *)
(* and returns an error.                                                   *)
(***************************************************************************)
EXTENDS Integers, Sequences, FiniteSets, TLC

VARIABLES
    users,          \* table users: set of rows
    tokens,         \* user ids for which Register has issued a bearer token
    transactions,   \* table transactions: set of committed rows
    deleting,       \* user ids whose DeleteData is between its two statements
    sync,           \* per request goroutine: the Sync call it is serving
    page,           \* the last answer of the transaction listing
    user_insights,  \* table user_insights: set of rows
    geminiCalls,    \* user ids whose spending data was posted to the Gemini API
    pushes,         \* the notifications handed to FCM
    gen,            \* the last answer of GenerateInsights
    sweep,          \* the daily analysis job (RunDailyAnalysis)
    svc,            \* the last call of a function observed on its own
    reg,            \* per request goroutine: the Register call it is serving
    answers,        \* the responses Register has sent, in order
    cast,           \* the last Broadcast of the admin panel
    clock,          \* the wall clock, in hours since a midnight
    sched,          \* the goroutine of startDailyScheduler
    limiter,        \* the closure of RateLimiter and the requests inside it
    agg,            \* a fetchSpendingData between its queries
    manual          \* the RunDailyAnalysis goroutine that TriggerInsights started

\* the state of the insight pipeline
pipeline == <<user_insights, geminiCalls, pushes, gen, sweep>>

\* the state of the ingestion
ingestion == <<users, tokens, transactions, deleting, sync>>

\* What the calls observed one at a time, and racing registrations, keep.
aux == <<svc, reg, answers>>

\* What the admin panel and the process-wide services keep.
admin == <<cast, clock, sched, limiter, agg, manual>>

vars == <<users, tokens, transactions, deleting, sync, page, pipeline, aux, admin>>

-----------------------------------------------------------------------------
(* Bounds and input domains *)

\* longest transaction list of a Sync body
MaxBatch == 2

\* request goroutines serving Sync: one in Spec, both in SpecRace
Procs == {1, 2}

Serial == {1}

UserIds == {"u1", "u2"}

Devices == {"d1", "d2"}

\* HTTP statuses of the handlers
StatusOK == 200

StatusBadRequest == 400

StatusForbidden == 403

StatusInternalServerError == 500

\* column transactions.type is VARCHAR(20)
TypeColumnLen == 20

\* length of a type string (TLC has no Len on strings)
StrLen(s) ==
    CASE s = "INCOME" -> 6
      [] s = "EXPENSE" -> 7
      [] s = "INTERNATIONAL_REMITTANCE" -> 24
      [] OTHER -> 0

\* models.TransactionInput, the fields that decide what is stored (amount in
\* ngwee, the column's two decimals): two items of one sms_hash with different
\* content, an item of a second sms_hash, and one whose type overflows its column
TransactionInput ==
    { [sms_hash |-> 1, amount |-> 2500, type |-> "EXPENSE", category |-> "DATA", date |-> 1],
      [sms_hash |-> 1, amount |-> 10000, type |-> "INCOME", category |-> "SALARY", date |-> 1],
      [sms_hash |-> 2, amount |-> 2500, type |-> "EXPENSE", category |-> "DATA", date |-> 1],
      [sms_hash |-> 2, amount |-> 2500, type |-> "INTERNATIONAL_REMITTANCE",
       category |-> "DATA", date |-> 1] }

Batches == UNION { [1..n -> TransactionInput] : n \in 0..MaxBatch }

\* models.SyncRequest as it arrives: json_ok is whether the body is JSON of
\* the right shape; has_transactions whether the key is present and not null
SyncBodies ==
    { [json_ok |-> TRUE, device_id |-> "d1", has_transactions |-> TRUE,
       transactions |-> b, timestamp |-> 1] : b \in Batches }
    \cup
    { [json_ok |-> FALSE, device_id |-> "", has_transactions |-> FALSE,
       transactions |-> <<>>, timestamp |-> 0],
      [json_ok |-> TRUE, device_id |-> "d1", has_transactions |-> FALSE,
       transactions |-> <<>>, timestamp |-> 1] }

\* the bodies of SpecRace: well-formed, one item content per sms_hash
RaceBodies ==
    { b \in SyncBodies :
        /\ b.json_ok /\ b.has_transactions
        /\ \A k \in 1..Len(b.transactions) :
              b.transactions[k].type = "EXPENSE" }

NoBody ==
    [json_ok |-> FALSE, device_id |-> "", has_transactions |-> FALSE,
     transactions |-> <<>>, timestamp |-> 0]

-----------------------------------------------------------------------------
(* The relational store *)

UserRow(u) == { r \in users : r.id = u }

\* ConsentGiven with the flag not read: any row of the user passes
ConsentGivenRowOnly(u) == \E r \in users : r.id = u

\* SELECT consent_given FROM users WHERE id = $1, with Scan's ErrNoRows
ConsentGiven(u) == \E r \in users : r.id = u /\ r.consent_given

\* the rows a key of UNIQUE(user_id, sms_hash) selects
RowsOf(store, u, h) == { r \in store : r.user_id = u /\ r.sms_hash = h }

\* write sets of the open, not failed transactions other than p's
OpenPending(p) ==
    UNION { sync[q].pending : q \in { x \in Procs \ {p} :
                sync[x].pc = "tx" /\ ~sync[x].failed } }

\* every row id in use: uuid.New() never returns one of them
UsedIds ==
    { r.id : r \in transactions } \cup
    UNION { { r.id : r \in sync[q].pending } : q \in Procs }

\* uuid.New(): an id no row has. Ids are opaque; the model takes the first
\* unused one of <<user, hash, 1>>, <<user, hash, 2>>, ...
NewUUID(u, h) ==
    LET n == CHOOSE k \in 1..(Cardinality(UsedIds) + 1) :
                 /\ <<u, h, k>> \notin UsedIds
                 /\ \A m \in 1..(k - 1) : <<u, h, m>> \in UsedIds
    IN <<u, h, n>>

\* the row an INSERT of item t for user u writes
NewRow(u, t) ==
    [id |-> NewUUID(u, t.sms_hash), user_id |-> u, sms_hash |-> t.sms_hash,
     amount |-> t.amount, type |-> t.type, category |-> t.category, date |-> t.date]

\* InsertFails without the foreign key: only the column width is checked
InsertFailsWidthOnly(u, t) == StrLen(t.type) > TypeColumnLen

\* the statement fails in the server: value too long for VARCHAR(20), or the
\* foreign key user_id REFERENCES users(id) has no row to point at
InsertFails(u, t) == StrLen(t.type) > TypeColumnLen \/ UserRow(u) = {}

\* Conflicts with the conflict target sms_hash alone: a row of any user conflicts
ConflictsAnyUser(p, u, t) ==
    \E r \in transactions \cup sync[p].pending : r.sms_hash = t.sms_hash

\* ON CONFLICT (user_id, sms_hash) DO NOTHING finds a row with the key, among
\* the committed rows or the transaction's own
Conflicts(p, u, t) ==
    RowsOf(transactions \cup sync[p].pending, u, t.sms_hash) # {}

\* Waits without the unique index's lock: no INSERT waits for another
WaitsNever(p, u, t) == FALSE

\* the INSERT waits: another open transaction holds an uncommitted row with the key
Waits(p, u, t) == RowsOf(OpenPending(p), u, t.sms_hash) # {}

\* OnConflict as DO UPDATE: the row with the key takes the item's content
OnConflictUpdate(pending, u, t) ==
    LET old == CHOOSE r \in RowsOf(transactions \cup pending, u, t.sms_hash) : TRUE
    IN { w \in pending : w.id # old.id } \cup
       { [old EXCEPT !.amount = t.amount, !.type = t.type,
                     !.category = t.category, !.date = t.date] }

\* what ON CONFLICT ... DO NOTHING adds to the transaction's write set
OnConflict(pending, u, t) == pending

\* RowsAffected not consulted: every INSERT without error counts as one row
RowsAffectedOne(p, u, t) == 1

\* result.RowsAffected() of the INSERT
RowsAffected(p, u, t) == IF Conflicts(p, u, t) THEN 0 ELSE 1

\* the table after tx.Commit: the write set becomes visible (a written row
\* replaces the stored version with its id)
Committed(store, pending) ==
    { r \in store : r.id \notin { w.id : w \in pending } } \cup pending

\* RolledBack with the statements run outside the transaction: the rows stay
RolledBackKept(store, pending) == store \cup pending

\* the table after the deferred tx.Rollback
RolledBack(store, pending) == store

-----------------------------------------------------------------------------
(* Sync *)

Idle ==
    [pc |-> "idle", user |-> "", req |-> NoBody, i |-> 1, insertedCount |-> 0,
     skippedCount |-> 0, pending |-> {}, failed |-> FALSE, status |-> 0,
     disturbed |-> "no"]

\* c.ShouldBindJSON(&req) with the binding:"required" tags of SyncRequest
\* (the element tags of TransactionInput are not reached: the slice has no dive)
ShouldBindJSON(body) ==
    /\ body.json_ok
    /\ body.device_id # ""
    /\ body.has_transactions
    /\ body.timestamp # 0

\* a request answered before the loop: its transaction list plays no part and
\* is not kept
Rejected(u, body, code) ==
    [Idle EXCEPT !.pc = "done", !.user = u,
                 !.req = [body EXCEPT !.transactions = <<>>], !.status = code]

\* history, for the calls inside their transaction: whether another actor has
\* changed the stored rows of the call's user since the call began
\* ("committed": a Sync added rows, "deleted": a DeleteData removed rows)
Disturb(s, p, u, how) ==
    [q \in Procs |->
        IF q # p /\ s[q].pc = "tx" /\ s[q].user = u /\ s[q].disturbed # "deleted"
        THEN [s[q] EXCEPT !.disturbed = how] ELSE s[q]]

\* StartStatus with the consent check ahead of the binding
StartStatusConsentFirst(bound, consent, begun) ==
    IF ~consent THEN StatusForbidden
    ELSE IF ~bound THEN StatusBadRequest
    ELSE IF ~begun THEN StatusInternalServerError
    ELSE 0

\* the handler's early returns before the loop, in their order: the status
\* answered, or 0 when the loop is entered
StartStatus(bound, consent, begun) ==
    IF ~bound THEN StatusBadRequest
    ELSE IF ~consent THEN StatusForbidden
    ELSE IF ~begun THEN StatusInternalServerError
    ELSE 0

\* Sync up to the loop: bind, consent check (the query may fail), Begin (may fail)
SyncStart(p, u, body) ==
    /\ sync[p].pc = "idle"
    /\ u \in tokens
    /\ \E queried \in BOOLEAN, begun \in BOOLEAN :
          LET code == StartStatus(ShouldBindJSON(body),
                                  queried /\ ConsentGiven(u), begun)
          IN sync' = [sync EXCEPT ![p] =
                        IF code = 0
                        THEN [Idle EXCEPT !.pc = "tx", !.user = u, !.req = body]
                        ELSE Rejected(u, body, code)]
    /\ UNCHANGED <<users, tokens, transactions, deleting, page, pipeline, aux, admin>>

\* one iteration of the loop: the INSERT, then the counting
SyncInsert(p) ==
    LET s == sync[p]
        t == s.req.transactions[s.i]
    IN
    /\ s.pc = "tx"
    /\ s.i <= Len(s.req.transactions)
    /\ \/ /\ s.failed \/ InsertFails(s.user, t)
          /\ sync' = [sync EXCEPT ![p].failed = TRUE,
                                  ![p].skippedCount = s.skippedCount + 1,
                                  ![p].i = s.i + 1]
       \/ /\ ~s.failed /\ ~InsertFails(s.user, t)
          /\ Conflicts(p, s.user, t) \/ ~Waits(p, s.user, t)
          /\ sync' = [sync EXCEPT
                ![p].pending = IF Conflicts(p, s.user, t)
                               THEN OnConflict(s.pending, s.user, t)
                               ELSE s.pending \cup {NewRow(s.user, t)},
                ![p].insertedCount = IF RowsAffected(p, s.user, t) > 0
                                     THEN s.insertedCount + 1 ELSE s.insertedCount,
                ![p].skippedCount = IF RowsAffected(p, s.user, t) > 0
                                    THEN s.skippedCount ELSE s.skippedCount + 1,
                ![p].i = s.i + 1]
    /\ UNCHANGED <<users, tokens, transactions, deleting, page, pipeline, aux, admin>>

\* p waits for q's row and q for p's: the server's deadlock detector fails
\* the statement of one of them
SyncDeadlock(p) ==
    LET s == sync[p]
        t == s.req.transactions[s.i]
    IN
    /\ s.pc = "tx"
    /\ ~s.failed
    /\ s.i <= Len(s.req.transactions)
    /\ ~InsertFails(s.user, t)
    /\ ~Conflicts(p, s.user, t)
    /\ \E q \in Procs \ {p} :
          /\ sync[q].pc = "tx" /\ ~sync[q].failed
          /\ RowsOf(sync[q].pending, s.user, t.sms_hash) # {}
          /\ sync[q].i <= Len(sync[q].req.transactions)
          /\ RowsOf(s.pending, sync[q].user,
                    sync[q].req.transactions[sync[q].i].sms_hash) # {}
    /\ sync' = [sync EXCEPT ![p].failed = TRUE,
                            ![p].skippedCount = s.skippedCount + 1,
                            ![p].i = s.i + 1]
    /\ UNCHANGED <<users, tokens, transactions, deleting, page, pipeline, aux, admin>>

\* tx.Commit and the response, lines 328-338 (defer tx.Rollback on the error path)
SyncCommit(p) ==
    LET s == sync[p] IN
    /\ s.pc = "tx"
    /\ s.i > Len(s.req.transactions)
    /\ \/ /\ transactions' = RolledBack(transactions, s.pending)
          /\ sync' = [sync EXCEPT ![p].pc = "done",
                                  ![p].status = StatusInternalServerError]
       \/ /\ ~s.failed
          /\ transactions' = Committed(transactions, s.pending)
          /\ sync' = [IF s.pending = {} THEN sync
                      ELSE Disturb(sync, p, s.user, "committed")
                        EXCEPT ![p].pc = "done", ![p].status = StatusOK]
    /\ UNCHANGED <<users, tokens, deleting, page, pipeline, aux, admin>>

\* the response has been written; the goroutine serves the next request
SyncReturn(p) ==
    /\ sync[p].pc = "done"
    /\ sync' = [sync EXCEPT ![p] = Idle]
    /\ UNCHANGED <<users, tokens, transactions, deleting, page, pipeline, aux, admin>>

-----------------------------------------------------------------------------
(* Sync of one batch with no other request in between, as a function of the
   stored rows *)

RECURSIVE SyncLoop(_, _, _, _, _)
\* the loop over req.Transactions inside the transaction: the write set and
\* whether a statement has failed (every later statement then fails too)
SyncLoop(store, pending, failed, u, items) ==
    IF items = << >> THEN [pending |-> pending, failed |-> failed]
    ELSE LET t == Head(items)
         IN IF failed \/ InsertFails(u, t)
            THEN SyncLoop(store, pending, TRUE, u, Tail(items))
            ELSE IF RowsOf(store \cup pending, u, t.sms_hash) # {}
            THEN SyncLoop(store, OnConflict(pending, u, t), FALSE, u, Tail(items))
            ELSE SyncLoop(store,
                          pending \cup
                            { [id |-> <<u, t.sms_hash, Cardinality(store \cup pending) + 1>>,
                               user_id |-> u, sms_hash |-> t.sms_hash,
                               amount |-> t.amount, type |-> t.type,
                               category |-> t.category, date |-> t.date] },
                          FALSE, u, Tail(items))

\* the table after the call: tx.Commit of the write set, or the deferred
\* tx.Rollback when a statement has failed
SyncBatch(store, u, batch) ==
    LET tx == SyncLoop(store, {}, FALSE, u, batch)
    IN IF tx.failed THEN RolledBack(store, tx.pending)
       ELSE Committed(store, tx.pending)

\* the batches with the items of batch in any order
Reorderings(batch) ==
    { [i \in 1..Len(batch) |-> batch[f[i]]] :
        f \in { g \in [1..Len(batch) -> 1..Len(batch)] :
                  \A i, j \in 1..Len(batch) : i # j => g[i] # g[j] } }

-----------------------------------------------------------------------------
(* Register, UpdateConsent, DeleteData *)

\* DefaultConsent with the column defaulting to TRUE
DefaultConsentTrue == TRUE

\* consent_given BOOLEAN DEFAULT FALSE: the INSERT of Register names no
\* consent_given, so a new row takes the column's default
DefaultConsent == FALSE

\* uuid.New() of Register: an id never issued (one per device in the model)
NewUserID(d) == IF d = "d1" THEN "u1" ELSE "u2"

\* Register: the row of the device, its fcm_token replaced by a token the
\* request carries, or a new row with consent_given's default and the
\* request's fcm_token (the empty string when the request has none)
Register(d, tok) ==
    /\ \/ /\ \E r \in users : r.device_id = d
          /\ tokens' = tokens \cup { r.id : r \in { x \in users : x.device_id = d } }
          /\ users' = { IF r.device_id = d /\ tok # ""
                        THEN [r EXCEPT !.fcm_token = tok] ELSE r : r \in users }
       \/ /\ ~\E r \in users : r.device_id = d
          /\ NewUserID(d) \notin tokens
          /\ users' = users \cup
                 { [id |-> NewUserID(d), device_id |-> d, consent_given |-> DefaultConsent,
                    fcm_token |-> tok] }
          /\ tokens' = tokens \cup {NewUserID(d)}
    /\ UNCHANGED <<transactions, deleting, sync, page, pipeline, aux, admin>>

\* most Register calls of one run
MaxRegister == 4

\* a request goroutine that serves no Register call
NoRegister ==
    [pc |-> "idle", device |-> "", fcm_token |-> "", user_id |-> "", exists |-> FALSE,
     error |-> ""]

\* uuid.New() of the Register call goroutine p serves: an id no other call draws
NewUserUUID(p) == IF p = 1 THEN "u1" ELSE "u2"

\* DeviceTaken without the constraint: no INSERT is refused for its device_id
DeviceTakenNever(d) == FALSE

\* device_id VARCHAR(255) UNIQUE: a row with the device_id refuses the INSERT
DeviceTaken(d) == \E r \in users : r.device_id = d

\* Register up to the INSERT: SELECT id FROM users WHERE device_id = $1 fails,
\* or finds no row, or finds the row
RegisterSelect(p, d, tok) ==
    /\ reg[p].pc = "idle"
    /\ Len(answers) + Cardinality({ q \in Procs : reg[q].pc # "idle" }) < MaxRegister
    /\ \/ reg' = [reg EXCEPT ![p] = [NoRegister EXCEPT !.pc = "failed", !.device = d,
                                                       !.error = "Database error"]]
       \/ /\ ~\E r \in users : r.device_id = d
          /\ reg' = [reg EXCEPT ![p] = [NoRegister EXCEPT !.pc = "insert", !.device = d,
                                                          !.fcm_token = tok]]
       \/ \E r \in users :
             /\ r.device_id = d
             /\ reg' = [reg EXCEPT ![p] =
                          [NoRegister EXCEPT !.pc = "respond", !.device = d,
                                             !.fcm_token = tok, !.user_id = r.id,
                                             !.exists = TRUE]]
    /\ UNCHANGED <<ingestion, page, pipeline, svc, answers, admin>>

\* INSERT INTO users (id, device_id, fcm_token, operator) with a new id: the
\* statement fails (for the device_id or for any other reason) or adds the row
RegisterInsert(p) ==
    /\ reg[p].pc = "insert"
    /\ \/ /\ reg' = [reg EXCEPT ![p].pc = "failed",
                                 ![p].error = "Failed to create user"]
          /\ UNCHANGED users
       \/ /\ ~DeviceTaken(reg[p].device)
          /\ users' = users \cup
                 { [id |-> NewUserUUID(p), device_id |-> reg[p].device,
                    consent_given |-> DefaultConsent, fcm_token |-> reg[p].fcm_token] }
          /\ reg' = [reg EXCEPT ![p].pc = "respond", ![p].user_id = NewUserUUID(p)]
    /\ UNCHANGED <<tokens, transactions, deleting, sync, page, pipeline, svc, answers, admin>>

\* the rest of Register: the UPDATE of the fcm_token of the row found, the
\* token (signing with the configured secret does not fail) and the response
RegisterRespond(p) ==
    /\ reg[p].pc \in {"respond", "failed"}
    /\ IF reg[p].pc = "failed"
       THEN /\ answers' = Append(answers,
                             [device |-> reg[p].device,
                              status |-> StatusInternalServerError,
                              user_id |-> "", is_new_user |-> FALSE,
                              error |-> reg[p].error])
            /\ UNCHANGED <<users, tokens>>
       ELSE /\ answers' = Append(answers,
                             [device |-> reg[p].device, status |-> StatusOK,
                              user_id |-> reg[p].user_id,
                              is_new_user |-> ~reg[p].exists, error |-> ""])
            /\ users' = { IF r.id = reg[p].user_id /\ reg[p].exists
                                /\ reg[p].fcm_token # ""
                           THEN [r EXCEPT !.fcm_token = reg[p].fcm_token] ELSE r
                           : r \in users }
            /\ tokens' = tokens \cup {reg[p].user_id}
    /\ reg' = [reg EXCEPT ![p] = NoRegister]
    /\ UNCHANGED <<transactions, deleting, sync, page, pipeline, svc, admin>>

\* UPDATE users SET consent_given = $1 ... WHERE id = $4
UpdateConsent(u, b) ==
    /\ u \in tokens
    /\ users' = { IF r.id = u THEN [r EXCEPT !.consent_given = b] ELSE r : r \in users }
    /\ UNCHANGED <<tokens, transactions, deleting, sync, page, pipeline, aux, admin>>

\* the calls of user u disturbed by a statement that takes the table to store2
DisturbIfChanged(store2, u) ==
    IF store2 = transactions THEN sync ELSE Disturb(sync, 0, u, "deleted")

\* DeleteData's first statement: DELETE FROM transactions WHERE user_id = $1
DeleteDataTransactions(u) ==
    /\ u \in tokens
    /\ u \notin deleting
    /\ transactions' = { r \in transactions : r.user_id # u }
    /\ deleting' = deleting \cup {u}
    /\ sync' = DisturbIfChanged(transactions', u)
    /\ UNCHANGED <<users, tokens, page, pipeline, aux, admin>>

\* DeleteData's second statement: DELETE FROM users WHERE id = $1, cascading
\* to the user's transactions and insights; it waits for open transactions that hold
\* uncommitted rows referencing the user row
DeleteDataUser(u) ==
    /\ u \in deleting
    /\ ~\E r \in OpenPending(0) : r.user_id = u
    /\ users' = { r \in users : r.id # u }
    /\ transactions' = { r \in transactions : r.user_id # u }
    /\ user_insights' = { r \in user_insights : r.user_id # u }
    /\ deleting' = deleting \ {u}
    /\ sync' = DisturbIfChanged(transactions', u)
    /\ UNCHANGED <<tokens, page, geminiCalls, pushes, gen, sweep, aux, admin>>

\* DeleteData's second statement fails: "Failed to delete user"
DeleteDataUserFails(u) ==
    /\ u \in deleting
    /\ deleting' = deleting \ {u}
    /\ UNCHANGED <<users, tokens, transactions, sync, page, pipeline, aux, admin>>

-----------------------------------------------------------------------------
(* GetTransactions: the pagination of the transaction listing *)

\* longest value of a query parameter
MaxQueryLen == 3

\* the characters of a query value: a sign, two digits, a letter
QueryChars == {"-", "0", "1", "a"}

\* c.Query("limit"), c.Query("offset"): the value, empty when the parameter is absent
QueryStrings == UNION { [1..n -> QueryChars] : n \in 0..MaxQueryLen }

DefaultLimit == 50

MaxLimit == 100

DefaultOffset == 0

DigitVal(c) ==
    CASE c = "0" -> 0 [] c = "1" -> 1 [] c = "2" -> 2 [] c = "3" -> 3
      [] c = "4" -> 4 [] c = "5" -> 5 [] c = "6" -> 6 [] c = "7" -> 7
      [] c = "8" -> 8 [] c = "9" -> 9 [] OTHER -> -1

\* how many leading characters of s the verb %d accepts as digits
DigitsLen(s) ==
    LET stops == { k \in 1..Len(s) : DigitVal(s[k]) < 0 }
    IN IF stops = {} THEN Len(s)
       ELSE (CHOOSE k \in stops : \A j \in stops : k <= j) - 1

RECURSIVE DigitsValue(_, _)
\* the decimal value of the first n characters of s
DigitsValue(s, n) ==
    IF n = 0 THEN 0 ELSE DigitsValue(s, n - 1) * 10 + DigitVal(s[n])

\* parseInt: fmt.Sscanf(s, "%d", &i) takes an optional sign and the digits
\* that follow, leaves the rest of s unread, and fails when no digit is there
parseInt(s) ==
    LET signed == Len(s) > 0 /\ s[1] \in {"+", "-"}
        body == IF signed THEN Tail(s) ELSE s
        n == DigitsLen(body)
    IN IF n = 0 THEN [i |-> 0, err |-> TRUE]
       ELSE [i |-> IF signed /\ s[1] = "-" THEN 0 - DigitsValue(body, n)
                   ELSE DigitsValue(body, n),
             err |-> FALSE]

\* Limit with a value above the cap cut down to the cap
LimitClamped(l) ==
    IF l # <<>> /\ ~parseInt(l).err /\ parseInt(l).i > 0
    THEN IF parseInt(l).i <= MaxLimit THEN parseInt(l).i ELSE MaxLimit
    ELSE DefaultLimit

\* the LIMIT of the listing's query, lines 346, 349-353
Limit(l) ==
    IF l # <<>> /\ ~parseInt(l).err /\ parseInt(l).i > 0 /\ parseInt(l).i <= MaxLimit
    THEN parseInt(l).i
    ELSE DefaultLimit

\* the OFFSET of the listing's query, lines 347, 354-358
Offset(o) ==
    IF o # <<>> /\ ~parseInt(o).err /\ parseInt(o).i >= 0
    THEN parseInt(o).i
    ELSE DefaultOffset

NoPage ==
    [user |-> "", limitQ |-> <<>>, offsetQ |-> <<>>, limit |-> 0, offset |-> 0,
     status |-> 0]

\* GetTransactions of user u with ?limit=l&offset=o: the query runs with
\* Limit(l) and Offset(o) (it may fail), and the answer repeats both
GetTransactions(u) ==
    /\ page.status = 0
    /\ u \in tokens
    /\ \E l \in QueryStrings, o \in QueryStrings, queried \in BOOLEAN :
          page' = [user |-> u, limitQ |-> l, offsetQ |-> o,
                   limit |-> Limit(l), offset |-> Offset(o),
                   status |-> IF queried THEN StatusOK
                              ELSE StatusInternalServerError]
    /\ UNCHANGED <<ingestion, pipeline, aux, admin>>

\* the answer has been written; the next listing request is served
GetTransactionsReturn ==
    /\ page.status # 0
    /\ page' = NoPage
    /\ UNCHANGED <<ingestion, pipeline, aux, admin>>

-----------------------------------------------------------------------------
(* The insight pipeline: fetchSpendingData, AnalyzeSpending, GenerateInsights
   and RunDailyAnalysis *)

\* time.Now(), in days; the tables do not change while the pipeline is observed
Now == 2

\* the daily window: startDate = now.AddDate(0, 0, -1)
DailyWindow == 1

\* an fcm_token column that is NULL (Register never writes one)
NULL == "<NULL>"

\* the ctx argument of AnalyzeSpending: the request's context, or nil
RequestContext == "c.Request.Context()"

NilContext == "nil"

RECURSIVE SumAmount(_)
\* SUM(amount) over a set of rows, COALESCEd to 0
SumAmount(rows) ==
    IF rows = {} THEN 0
    ELSE LET r == CHOOSE x \in rows : TRUE
         IN r.amount + SumAmount(rows \ {r})

\* the weekly window: startDate = now.AddDate(0, 0, -7)
WeeklyWindow == 7

\* the monthly window: startDate = now.AddDate(0, -1, 0), a month of 30 days
MonthlyWindow == 30

\* the switch on period: the first instant the queries select from
StartDate(period) ==
    CASE period = "daily" -> Now - DailyWindow
      [] period = "weekly" -> Now - WeeklyWindow
      [] period = "monthly" -> Now - MonthlyWindow
      [] OTHER -> Now - DailyWindow

\* the rows WHERE user_id = $1 AND date >= $2 selects
InWindow(u, period) ==
    { r \in transactions : r.user_id = u /\ r.date >= StartDate(period) }

\* fetchSpendingData after its first query has succeeded; catOK and savOK are
\* whether the category and the savings queries succeed (their errors are dropped)
fetchSpendingData(u, period, catOK, savOK) ==
    LET rows == InWindow(u, period)
        income == { r \in rows : r.type = "INCOME" }
        expenses == { r \in rows : r.type = "EXPENSE" }
    IN [UserID |-> u, Period |-> period,
        TotalIncome |-> SumAmount(income),
        TotalExpenses |-> SumAmount(expenses),
        NetBalance |-> SumAmount(income) - SumAmount(expenses),
        ByCategory |-> IF catOK
                       THEN [c \in { r.category : r \in expenses } |->
                               SumAmount({ r \in expenses : r.category = c })]
                       ELSE << >>,
        TransactionCount |-> Cardinality(rows),
        SavingsDeposits |-> IF savOK
                            THEN SumAmount({ r \in expenses : r.category = "SAVINGS" })
                            ELSE 0]

\* an insight Gemini writes (a message is its text and the amount printed in it)
TipInsight ==
    [Title |-> "Airtime", Message |-> <<"Buy bundles weekly", 0>>, Category |-> "tip",
     Priority |-> "medium", GeneratedAt |-> Now]

\* what the Gemini API answers to a POST: a failure (transport error, status
\* other than 200, unreadable body, no candidate), or a text that is a JSON
\* array of insights or is not
GeminiReplies ==
    { [ok |-> FALSE, json |-> FALSE, insights |-> << >>],
      [ok |-> TRUE, json |-> FALSE, insights |-> << >>],
      [ok |-> TRUE, json |-> TRUE, insights |-> << >>],
      [ok |-> TRUE, json |-> TRUE, insights |-> <<TipInsight>>] }

\* generateContent: http.NewRequestWithContext refuses a nil context before
\* anything is sent; otherwise the request is posted and the reply decides
generateContent(ctx, reply) ==
    IF ctx = NilContext THEN [err |-> TRUE, sent |-> FALSE, text |-> reply]
    ELSE [err |-> ~reply.ok, sent |-> TRUE, text |-> reply]

\* parseInsights: json.Unmarshal of the text into the insight list
parseInsights(text) ==
    [err |-> ~text.json, insights |-> IF text.json THEN text.insights ELSE << >>]

\* fallbackInsights that also reads a balance of zero as positive
fallbackInsightsZeroPositive(data) ==
    (IF data.SavingsDeposits > 0
     THEN << [Title |-> "Great Saving Habit!", Message |-> <<"You've saved K%.0f this period. Keep it up!", data.SavingsDeposits>>,
              Category |-> "savings", Priority |-> "high", GeneratedAt |-> Now] >>
     ELSE << >>)
    \o
    (IF data.NetBalance >= 0
     THEN << [Title |-> "Positive Balance", Message |-> <<"Your income exceeds expenses by K%.0f. Consider saving the surplus!",
                            data.NetBalance>>,
              Category |-> "tip", Priority |-> "medium", GeneratedAt |-> Now] >>
     ELSE << [Title |-> "Spending Alert", Message |-> <<"You've spent K%.0f more than earned. Review your expenses.",
                            0 - data.NetBalance>>,
              Category |-> "spending", Priority |-> "high", GeneratedAt |-> Now] >>)

\* fallbackInsights: the savings insight, then the balance insight
fallbackInsights(data) ==
    (IF data.SavingsDeposits > 0
     THEN << [Title |-> "Great Saving Habit!", Message |-> <<"You've saved K%.0f this period. Keep it up!", data.SavingsDeposits>>,
              Category |-> "savings", Priority |-> "high", GeneratedAt |-> Now] >>
     ELSE << >>)
    \o
    (IF data.NetBalance > 0
     THEN << [Title |-> "Positive Balance", Message |-> <<"Your income exceeds expenses by K%.0f. Consider saving the surplus!",
                            data.NetBalance>>,
              Category |-> "tip", Priority |-> "medium", GeneratedAt |-> Now] >>
     ELSE IF data.NetBalance < 0
     THEN << [Title |-> "Spending Alert", Message |-> <<"You've spent K%.0f more than earned. Review your expenses.",
                            0 - data.NetBalance>>,
              Category |-> "spending", Priority |-> "high", GeneratedAt |-> Now] >>
     ELSE << >>)

\* AnalyzeSpending: the insights, or the error of generateContent; sent is
\* whether the spending data left for the Gemini API
AnalyzeSpending(ctx, data, reply) ==
    LET response == generateContent(ctx, reply)
        parsed == parseInsights(response.text)
    IN IF response.err
       THEN [err |-> TRUE, sent |-> response.sent, insights |-> << >>]
       ELSE IF parsed.err
       THEN [err |-> FALSE, sent |-> response.sent, insights |-> fallbackInsights(data)]
       ELSE [err |-> FALSE, sent |-> response.sent, insights |-> parsed.insights]

RECURSIVE BestInsight(_, _)
\* the loop of GenerateNotificationText: the last insight of priority high,
\* or the first insight when best is still empty
BestInsight(insights, best) ==
    IF insights = << >> THEN best
    ELSE BestInsight(Tail(insights),
                     IF Head(insights).Priority = "high" \/ best.Title = ""
                     THEN Head(insights) ELSE best)

\* GenerateNotificationText: title and body of the push
GenerateNotificationText(insights) ==
    IF insights = << >>
    THEN [title |-> "Daily Summary",
          body |-> <<"Check your spending insights in the app!", 0>>]
    ELSE LET best == BestInsight(insights, [Title |-> "", Message |-> <<"", 0>>])
         IN [title |-> best.Title, body |-> best.Message]

\* Skips with the check left out: every aggregate is analysed
SkipsNever(data) == FALSE

\* "Skip if no transactions": spendingData.TransactionCount == 0
Skips(data) == data.TransactionCount = 0

\* storeInsights: one row per insight (ids in insertion order)
storeInsights(table, u, insights) ==
    table \cup
    { [id |-> Cardinality(table) + k, user_id |-> u, title |-> insights[k].Title,
       message |-> insights[k].Message, category |-> insights[k].Category,
       priority |-> insights[k].Priority, generated_at |-> insights[k].GeneratedAt]
      : k \in 1..Len(insights) }

NoAnswer == [user |-> "", status |-> 0, insights |-> << >>, analyzed |-> 0]

\* GenerateInsights of user u (the route is behind the bearer token only):
\* the first query of fetchSpendingData fails, or the aggregate is empty, or
\* it is analysed
GenerateInsights(u) ==
    /\ gen.status = 0
    /\ u \in tokens
    /\ \/ /\ gen' = [NoAnswer EXCEPT !.user = u, !.status = StatusInternalServerError]
          /\ UNCHANGED geminiCalls
       \/ /\ Skips(fetchSpendingData(u, "daily", TRUE, TRUE))
          /\ gen' = [NoAnswer EXCEPT !.user = u, !.status = StatusOK]
          /\ UNCHANGED geminiCalls
       \/ /\ ~Skips(fetchSpendingData(u, "daily", TRUE, TRUE))
          /\ \E catOK \in BOOLEAN, savOK \in BOOLEAN, reply \in GeminiReplies :
                LET data == fetchSpendingData(u, "daily", catOK, savOK)
                    res == AnalyzeSpending(RequestContext, data, reply)
                IN /\ geminiCalls' = IF res.sent THEN geminiCalls \cup {u}
                                     ELSE geminiCalls
                   /\ gen' = IF res.err
                             THEN [NoAnswer EXCEPT !.user = u,
                                                   !.status = StatusInternalServerError]
                             ELSE [user |-> u, status |-> StatusOK,
                                   insights |-> res.insights,
                                   analyzed |-> data.TransactionCount]
    /\ UNCHANGED <<ingestion, page, user_insights, pushes, sweep, aux, admin>>

\* the answer has been written; the next GenerateInsights request is served
GenerateInsightsReturn ==
    /\ gen.status # 0
    /\ gen' = NoAnswer
    /\ UNCHANGED <<ingestion, page, user_insights, geminiCalls, pushes, sweep, aux, admin>>

\* the job between two runs; last is what the loop's iteration in progress
\* met: the user, whether a non-empty aggregate was handed to AnalyzeSpending,
\* and what the Gemini API answers to a POST
NoIteration ==
    [user |-> "", analysed |-> FALSE,
     reply |-> [ok |-> FALSE, json |-> FALSE, insights |-> << >>]]

\* rested is whether no call of AnalyzeSpending has been made in the run, or
\* the delay (time.Sleep(500 * time.Millisecond)) has run since the latest one
Sleeping ==
    [pc |-> "idle", rows |-> {}, seen |-> {}, successCount |-> 0, errorCount |-> 0,
     last |-> NoIteration, rested |-> TRUE]

\* RunDailyAnalysis up to its loop: the result set of
\* SELECT id, fcm_token FROM users WHERE consent_given = true AND fcm_token IS NOT NULL
\* (when the query fails the job returns at once and nothing changes)
SweepStart ==
    /\ sweep.pc = "idle"
    /\ sweep' = [Sleeping EXCEPT
                   !.pc = "running",
                   !.rows = { [id |-> r.id, fcm_token |-> r.fcm_token] :
                              r \in { x \in users : x.consent_given
                                                    /\ x.fcm_token # NULL } }]
    /\ UNCHANGED <<ingestion, page, user_insights, geminiCalls, pushes, gen, aux, admin>>

\* continue as a return: the iteration on row ends the loop
ContinueAsReturn(row) ==
    [sweep EXCEPT !.rows = {}, !.seen = sweep.seen \cup {row.id}]

\* continue, and the end of the loop's body: the iteration on row is over and
\* rows.Next moves to the rows that are left
Continue(row) ==
    [sweep EXCEPT !.rows = sweep.rows \ {row}, !.seen = sweep.seen \cup {row.id}]

\* one iteration of RunDailyAnalysis's loop, on the next row of the result set
\* (rows.Next gives them in no promised order): the fetch fails or the
\* aggregate is empty, or the analysis fails, or its insights are stored and
\* pushed; fcm is whether the handler has an FCM service
SweepUser ==
    /\ sweep.pc = "running"
    /\ \E row \in sweep.rows :
          LET daily == fetchSpendingData(row.id, "daily", TRUE, TRUE)
          IN \/ \* err != nil (the fetch can always fail) || TransactionCount == 0
                /\ sweep' = [Continue(row) EXCEPT
                               !.last = [NoIteration EXCEPT !.user = row.id]]
                /\ UNCHANGED <<user_insights, geminiCalls, pushes>>
             \/ /\ ~Skips(daily)
                /\ \E reply \in GeminiReplies :
                      LET res == AnalyzeSpending(NilContext, daily, reply)
                      IN /\ res.err
                         /\ sweep' = [Continue(row) EXCEPT
                                        !.errorCount = sweep.errorCount + 1,
                                        !.rested = FALSE,
                                        !.last = [user |-> row.id, analysed |-> TRUE,
                                                  reply |-> reply]]
                         /\ geminiCalls' = IF res.sent THEN geminiCalls \cup {row.id}
                                           ELSE geminiCalls
                         /\ UNCHANGED <<user_insights, pushes>>
             \/ /\ ~Skips(daily)
                /\ \E reply \in GeminiReplies, catOK \in BOOLEAN, savOK \in BOOLEAN,
                      fcm \in BOOLEAN :
                      LET data == fetchSpendingData(row.id, "daily", catOK, savOK)
                          res == AnalyzeSpending(NilContext, data, reply)
                          text == GenerateNotificationText(res.insights)
                      IN /\ ~res.err
                         /\ sweep' = [Continue(row) EXCEPT
                                        !.successCount = sweep.successCount + 1,
                                        !.rested = TRUE,
                                        !.last = [user |-> row.id, analysed |-> TRUE,
                                                  reply |-> reply]]
                         /\ geminiCalls' = IF res.sent THEN geminiCalls \cup {row.id}
                                           ELSE geminiCalls
                         /\ user_insights' =
                                storeInsights(user_insights, row.id, res.insights)
                         /\ pushes' =
                                IF row.fcm_token # NULL /\ fcm
                                THEN pushes \cup
                                     { [user |-> row.id, token |-> row.fcm_token,
                                        title |-> text.title, body |-> text.body] }
                                ELSE pushes
    /\ UNCHANGED <<ingestion, page, gen, aux, admin>>

\* the loop has run out of rows: "Daily analysis complete"
SweepEnd ==
    /\ sweep.pc = "running"
    /\ sweep.rows = {}
    /\ sweep' = [sweep EXCEPT !.pc = "idle", !.last = NoIteration, !.rested = TRUE]
    /\ UNCHANGED <<ingestion, page, user_insights, geminiCalls, pushes, gen, aux, admin>>

-----------------------------------------------------------------------------
(* The functions of the insight services, called one at a time *)

\* the longest insight list handed to GenerateNotificationText
MaxInsights == 3

\* the period keywords a caller passes ("" stands for any other string)
Periods == {"daily", "weekly", "monthly", ""}

\* insights as Gemini may write them: any title, the empty one included
\* (the JSON field may be missing), and any priority
InsightInput ==
    { [Title |-> t, Message |-> <<t, IF p = "high" THEN 1 ELSE 0>>, Category |-> "tip",
       Priority |-> p, GeneratedAt |-> Now] : t \in {"", "A", "B"}, p \in {"high", "low"} }

InsightLists == UNION { [1..n -> InsightInput] : n \in 0..MaxInsights }

NoCall == [fn |-> "", arg |-> << >>, out |-> << >>]

\* fetchSpendingData(userID, period) whose first query succeeds
CallFetchSpendingData ==
    /\ svc.fn = ""
    /\ \E u \in UserIds, period \in Periods, catOK \in BOOLEAN, savOK \in BOOLEAN :
          svc' = [fn |-> "fetchSpendingData",
                  arg |-> [user |-> u, period |-> period, catOK |-> catOK, savOK |-> savOK],
                  out |-> fetchSpendingData(u, period, catOK, savOK)]
    /\ UNCHANGED <<ingestion, page, pipeline, reg, answers, admin>>

\* AnalyzeSpending(ctx, data) on an aggregate fetchSpendingData has returned
CallAnalyzeSpending ==
    /\ svc.fn = ""
    /\ \E u \in UserIds, period \in Periods, catOK \in BOOLEAN, savOK \in BOOLEAN,
          ctx \in {RequestContext, NilContext}, reply \in GeminiReplies :
          LET data == fetchSpendingData(u, period, catOK, savOK)
          IN svc' = [fn |-> "AnalyzeSpending",
                     arg |-> [ctx |-> ctx, data |-> data, reply |-> reply],
                     out |-> AnalyzeSpending(ctx, data, reply)]
    /\ UNCHANGED <<ingestion, page, pipeline, reg, answers, admin>>

\* GenerateNotificationText(insights)
CallGenerateNotificationText ==
    /\ svc.fn = ""
    /\ \E insights \in InsightLists :
          svc' = [fn |-> "GenerateNotificationText", arg |-> insights,
                  out |-> GenerateNotificationText(insights)]
    /\ UNCHANGED <<ingestion, page, pipeline, reg, answers, admin>>

\* the call has returned; the next one is made
CallReturn ==
    /\ svc.fn # ""
    /\ svc' = NoCall
    /\ UNCHANGED <<ingestion, page, pipeline, reg, answers, admin>>

-----------------------------------------------------------------------------
(* The admin panel: Broadcast *)

\* the target values of a BroadcastRequest ("other" stands for any other string)
Targets == {"all", "active", "specific", "other"}

\* the window of target active: time.Now().AddDate(0, 0, -7)
ActiveWindow == 7

NoCast == [status |-> 0, target |-> "", user_ids |-> {}, tokens |-> {}]

\* SELECT fcm_token FROM users WHERE id IN (...) AND fcm_token IS NOT NULL
SpecificTokens(ids) ==
    { r.fcm_token : r \in { x \in users : x.id \in ids /\ x.fcm_token # NULL } }

\* SELECT DISTINCT u.fcm_token FROM users u INNER JOIN transactions t
\* ON u.id = t.user_id WHERE t.created_at >= $1 AND u.fcm_token IS NOT NULL
ActiveTokens ==
    { r.fcm_token : r \in { x \in users :
        /\ x.fcm_token # NULL
        /\ \E t \in transactions : t.user_id = x.id
                                      /\ t.created_at >= Now - ActiveWindow } }

\* SELECT fcm_token FROM users WHERE fcm_token IS NOT NULL
AllTokens == { r.fcm_token : r \in { x \in users : x.fcm_token # NULL } }

\* the if / else if / else on req.Target that fills tokens
SelectTokens(target, ids) ==
    IF target = "specific" /\ ids # {} THEN SpecificTokens(ids)
    ELSE IF target = "active" THEN ActiveTokens
    ELSE AllTokens

\* Broadcast: the body does not bind, or no token is selected, or the
\* notification is scheduled for later (nothing is sent), or it goes to every
\* selected token
Broadcast ==
    /\ cast.status = 0
    /\ \E target \in Targets, ids \in SUBSET UserIds, bound \in BOOLEAN,
          scheduled \in BOOLEAN :
          cast' = IF ~bound
                  THEN [NoCast EXCEPT !.status = StatusBadRequest, !.target = target,
                                      !.user_ids = ids]
                  ELSE IF SelectTokens(target, ids) = {}
                  THEN [NoCast EXCEPT !.status = StatusBadRequest, !.target = target,
                                      !.user_ids = ids]
                  ELSE [status |-> StatusOK, target |-> target, user_ids |-> ids,
                        tokens |-> IF scheduled THEN {}
                                   ELSE SelectTokens(target, ids)]
    /\ UNCHANGED <<ingestion, page, pipeline, aux, clock, sched, limiter, agg, manual>>

\* the answer has been written; the next Broadcast is served
BroadcastReturn ==
    /\ cast.status # 0
    /\ cast' = NoCast
    /\ UNCHANGED <<ingestion, page, pipeline, aux, clock, sched, limiter, agg, manual>>

-----------------------------------------------------------------------------
(* The daily scheduler: startDailyScheduler *)

\* 24 * time.Hour
Day == 24

\* time.Date(now.Year(), now.Month(), now.Day(), 6, 0, 0, 0, now.Location())
SixAM == 6

\* the hours the clock is followed for
MaxClock == 60

\* most sweeps the scheduler is followed for
MaxRuns == 3

\* the goroutine before its loop; runs are the instants at which it has
\* called RunDailyAnalysis
Started == [pc |-> "computing", next |-> 0, runs |-> << >>]

\* next: today's 06:00, or tomorrow's when today's is before now
NextRun(now) ==
    LET next == (now \div Day) * Day + SixAM
    IN IF next < now THEN next + Day ELSE next

\* the head of the loop: duration := time.Until(next)
SchedulerArm ==
    /\ sched.pc = "computing"
    /\ sched' = [sched EXCEPT !.pc = "sleeping", !.next = NextRun(clock)]
    /\ UNCHANGED <<ingestion, page, pipeline, aux, cast, clock, limiter, agg, manual>>

\* time.Sleep(duration) returns, not before next, and RunDailyAnalysis is called
SchedulerWake ==
    /\ sched.pc = "sleeping"
    /\ clock >= sched.next
    /\ Len(sched.runs) < MaxRuns
    /\ sched' = [sched EXCEPT !.pc = "running", !.runs = Append(sched.runs, clock)]
    /\ UNCHANGED <<ingestion, page, pipeline, aux, cast, clock, limiter, agg, manual>>

\* RunDailyAnalysis returns (after any time, none included)
SchedulerDone ==
    /\ sched.pc = "running"
    /\ sched' = [sched EXCEPT !.pc = "computing"]
    /\ UNCHANGED <<ingestion, page, pipeline, aux, cast, clock, limiter, agg, manual>>

\* an hour passes
Tick ==
    /\ clock < MaxClock
    /\ clock' = clock + 1
    /\ UNCHANGED <<ingestion, page, pipeline, aux, cast, sched, limiter, agg, manual>>


\* Sync of user u1 with a batch, and with the same items in another order,
\* each on the rows stored now
CallSync ==
    /\ svc.fn = ""
    /\ \E batch \in Batches :
          \E other \in Reorderings(batch) :
             svc' = [fn |-> "Sync",
                     arg |-> [user |-> "u1", batch |-> batch, other |-> other],
                     out |-> [first |-> SyncBatch(transactions, "u1", batch),
                              second |-> SyncBatch(transactions, "u1", other)]]
    /\ UNCHANGED <<ingestion, page, pipeline, reg, answers, admin>>

-----------------------------------------------------------------------------
(* The admin user listing *)

\* the filter values of GetUsers: none, "all", "synced"
Filters == {"", "all", "synced"}

\* the synced filter: time.Now().AddDate(0, 0, -7)
SyncedWindow == 7

\* most insights stored for one user
MaxStored == 2

\* the right side of a LEFT JOIN for one user: each matching row, or one
\* all-NULL row (the empty set) when none matches
LeftJoin(rows) == IF rows = {} THEN { {} } ELSE { {x} : x \in rows }

\* FROM users u LEFT JOIN transactions t ON u.id = t.user_id
\*              LEFT JOIN user_insights i ON u.id = i.user_id, the rows of user u
Joined(u) ==
    { [t |-> a, i |-> b] :
        a \in LeftJoin({ x \in transactions : x.user_id = u }),
        b \in LeftJoin({ x \in user_insights : x.user_id = u }) }

\* WHERE t.created_at >= $3 when filter is "synced" (never true of a NULL)
Filtered(u, filter) ==
    IF filter = "synced"
    THEN { j \in Joined(u) : \E x \in j.t : x.created_at >= Now - SyncedWindow }
    ELSE Joined(u)

\* GetUsers with the default page and limit (every group fits the page):
\* GROUP BY u.id, COUNT(t.id) as transaction_count,
\* COUNT(DISTINCT i.id) as insights_count
GetUsers(filter) ==
    { [id |-> r.id,
       transaction_count |-> Cardinality({ j \in Filtered(r.id, filter) : j.t # {} }),
       insights_count |-> Cardinality(UNION { { x.id : x \in j.i }
                                              : j \in Filtered(r.id, filter) })]
      : r \in { x \in users : Filtered(x.id, filter) # {} } }

\* GET /admin/users?filter=...
CallGetUsers ==
    /\ svc.fn = ""
    /\ \E filter \in Filters :
          svc' = [fn |-> "GetUsers", arg |-> [filter |-> filter],
                  out |-> GetUsers(filter)]
    /\ UNCHANGED <<ingestion, page, pipeline, reg, answers, admin>>

-----------------------------------------------------------------------------
(* The sweep an admin triggers: RunDailyAnalysis on a goroutine of its own *)

\* TriggerInsights: go h.InsightsHandler.RunDailyAnalysis(), whatever else runs,
\* and the goroutine up to its loop: the result set of
\* SELECT id, fcm_token FROM users WHERE consent_given = true AND fcm_token IS NOT NULL
\* (when the query fails the job returns at once and nothing changes)
TriggerInsights ==
    /\ manual.pc = "idle"
    /\ manual' = [Sleeping EXCEPT
                   !.pc = "running",
                   !.rows = { [id |-> r.id, fcm_token |-> r.fcm_token] :
                              r \in { x \in users : x.consent_given
                                                    /\ x.fcm_token # NULL } }]
    /\ UNCHANGED <<ingestion, page, pipeline, aux, cast, clock, sched, limiter, agg>>

\* continue, and the end of the loop's body, in the goroutine of TriggerInsights
ManualContinue(row) ==
    [manual EXCEPT !.rows = manual.rows \ {row}, !.seen = manual.seen \cup {row.id}]

\* one iteration of the loop in the goroutine of TriggerInsights, on the next
\* row of its result set
\* (rows.Next gives them in no promised order): the fetch fails or the
\* aggregate is empty, or the analysis fails, or its insights are stored and
\* pushed; fcm is whether the handler has an FCM service
ManualUser ==
    /\ manual.pc = "running"
    /\ \E row \in manual.rows :
          LET daily == fetchSpendingData(row.id, "daily", TRUE, TRUE)
          IN \/ \* err != nil (the fetch can always fail) || TransactionCount == 0
                /\ manual' = [ManualContinue(row) EXCEPT
                               !.last = [NoIteration EXCEPT !.user = row.id]]
                /\ UNCHANGED <<user_insights, geminiCalls, pushes>>
             \/ /\ ~Skips(daily)
                /\ \E reply \in GeminiReplies :
                      LET res == AnalyzeSpending(NilContext, daily, reply)
                      IN /\ res.err
                         /\ manual' = [ManualContinue(row) EXCEPT
                                        !.errorCount = manual.errorCount + 1,
                                        !.rested = FALSE,
                                        !.last = [user |-> row.id, analysed |-> TRUE,
                                                  reply |-> reply]]
                         /\ geminiCalls' = IF res.sent THEN geminiCalls \cup {row.id}
                                           ELSE geminiCalls
                         /\ UNCHANGED <<user_insights, pushes>>
             \/ /\ ~Skips(daily)
                /\ \E reply \in GeminiReplies, catOK \in BOOLEAN, savOK \in BOOLEAN,
                      fcm \in BOOLEAN :
                      LET data == fetchSpendingData(row.id, "daily", catOK, savOK)
                          res == AnalyzeSpending(NilContext, data, reply)
                          text == GenerateNotificationText(res.insights)
                      IN /\ ~res.err
                         /\ manual' = [ManualContinue(row) EXCEPT
                                        !.successCount = manual.successCount + 1,
                                        !.rested = TRUE,
                                        !.last = [user |-> row.id, analysed |-> TRUE,
                                                  reply |-> reply]]
                         /\ geminiCalls' = IF res.sent THEN geminiCalls \cup {row.id}
                                           ELSE geminiCalls
                         /\ user_insights' =
                                storeInsights(user_insights, row.id, res.insights)
                         /\ pushes' =
                                IF row.fcm_token # NULL /\ fcm
                                THEN pushes \cup
                                     { [user |-> row.id, token |-> row.fcm_token,
                                        title |-> text.title, body |-> text.body] }
                                ELSE pushes
    /\ UNCHANGED <<ingestion, page, gen, sweep, aux, cast, clock, sched, limiter, agg>>

\* the goroutine of TriggerInsights has run out of rows: "Daily analysis complete"
ManualEnd ==
    /\ manual.pc = "running"
    /\ manual.rows = {}
    /\ manual' = [manual EXCEPT !.pc = "idle", !.last = NoIteration, !.rested = TRUE]
    /\ UNCHANGED <<ingestion, page, pipeline, aux, cast, clock, sched, limiter, agg>>

-----------------------------------------------------------------------------
(* The rate limiter: one closure, entered by every request goroutine without
   a lock *)

\* requestsPerMinute, scaled down (main passes 100)
RequestsPerMinute == 2

\* the largest count of one client followed
MaxCount == 4

\* requestCounts[clientIP] of the one client followed, the requests passed to
\* the handlers since the map was made, whether the runtime has stopped the
\* process, and per goroutine where it is and the count it has read
NoRequests ==
    [count |-> 0, passed |-> 0, crashed |-> FALSE,
     pc |-> [p \in Procs |-> "idle"], local |-> [p \in Procs |-> 0]]

\* the request enters: the reset when a minute has gone since the last one
\* (a goroutine inside the old map keeps the old map), then the read of
\* requestCounts[clientIP]++
LimiterRead(p) ==
    /\ ~limiter.crashed
    /\ limiter.pc[p] = "idle"
    /\ limiter.count < MaxCount
    /\ \E minute \in BOOLEAN :
          limiter' = [limiter EXCEPT
                        !.count = IF minute THEN 0 ELSE limiter.count,
                        !.passed = IF minute THEN 0 ELSE limiter.passed,
                        !.local[p] = IF minute THEN 0 ELSE limiter.count,
                        !.pc = [q \in Procs |->
                                  IF q = p THEN "read"
                                  ELSE IF minute /\ limiter.pc[q] = "read" THEN "stale"
                                  ELSE limiter.pc[q]]]
    /\ UNCHANGED <<ingestion, page, pipeline, aux, cast, clock, sched, agg, manual>>

\* the write of requestCounts[clientIP]++: the count read, plus one, into the
\* map it was read from
LimiterWrite(p) ==
    /\ ~limiter.crashed
    /\ limiter.pc[p] \in {"read", "stale"}
    /\ limiter' = [limiter EXCEPT
                     !.count = IF limiter.pc[p] = "read"
                               THEN limiter.local[p] + 1 ELSE limiter.count,
                     !.pc[p] = "written"]
    /\ UNCHANGED <<ingestion, page, pipeline, aux, cast, clock, sched, agg, manual>>

\* two goroutines are inside the map at once and the runtime notices:
\* "fatal error: concurrent map writes"
LimiterCrash(p) ==
    /\ ~limiter.crashed
    /\ limiter.pc[p] = "read"
    /\ \E q \in Procs \ {p} : limiter.pc[q] = "read"
    /\ limiter' = [limiter EXCEPT !.crashed = TRUE]
    /\ UNCHANGED <<ingestion, page, pipeline, aux, cast, clock, sched, agg, manual>>

\* if requestCounts[clientIP] > requestsPerMinute: 429 and Abort, else c.Next()
LimiterCheck(p) ==
    /\ ~limiter.crashed
    /\ limiter.pc[p] = "written"
    /\ limiter' = [limiter EXCEPT
                     !.passed = IF limiter.count > RequestsPerMinute
                                THEN limiter.passed ELSE limiter.passed + 1,
                     !.pc[p] = "idle"]
    /\ UNCHANGED <<ingestion, page, pipeline, aux, cast, clock, sched, agg, manual>>

-----------------------------------------------------------------------------
(* fetchSpendingData query by query: three statements on the pool, each in a
   transaction of its own, so a commit may come between any two of them *)

\* no fetchSpendingData in progress
\* (ok: no query of it has failed)
NoFetch == [pc |-> "idle", user |-> "", ok |-> TRUE, data |-> << >>]

\* the first query: the totals and the count
FetchTotals ==
    /\ agg.pc = "idle"
    /\ \E u \in {"u1"}, period \in Periods :
          LET rows == InWindow(u, period)
              income == { r \in rows : r.type = "INCOME" }
              expenses == { r \in rows : r.type = "EXPENSE" }
          IN agg' = [pc |-> "totals", user |-> u, ok |-> TRUE,
                     data |-> [UserID |-> u, Period |-> period,
                               TotalIncome |-> SumAmount(income),
                               TotalExpenses |-> SumAmount(expenses),
                               NetBalance |-> SumAmount(income) - SumAmount(expenses),
                               ByCategory |-> << >>,
                               TransactionCount |-> Cardinality(rows),
                               SavingsDeposits |-> 0]]
    /\ UNCHANGED <<ingestion, page, pipeline, aux, cast, clock, sched, limiter, manual>>

\* the second query: the breakdown by category (its error is dropped)
FetchCategories ==
    /\ agg.pc = "totals"
    /\ \E catOK \in BOOLEAN :
          LET expenses == { r \in InWindow(agg.user, agg.data.Period) : r.type = "EXPENSE" }
          IN agg' = [agg EXCEPT
                       !.pc = "categories",
                       !.ok = catOK,
                       !.data.ByCategory =
                           IF catOK
                           THEN [c \in { r.category : r \in expenses } |->
                                   SumAmount({ r \in expenses : r.category = c })]
                           ELSE << >>]
    /\ UNCHANGED <<ingestion, page, pipeline, aux, cast, clock, sched, limiter, manual>>

\* the third query: the savings deposits (its error is dropped), and the return
FetchSavings ==
    /\ agg.pc = "categories"
    /\ \E savOK \in BOOLEAN :
          LET expenses == { r \in InWindow(agg.user, agg.data.Period) : r.type = "EXPENSE" }
          IN agg' = [agg EXCEPT
                       !.pc = "returned",
                       !.ok = agg.ok /\ savOK,
                       !.data.SavingsDeposits =
                           IF savOK
                           THEN SumAmount({ r \in expenses : r.category = "SAVINGS" })
                           ELSE 0]
    /\ UNCHANGED <<ingestion, page, pipeline, aux, cast, clock, sched, limiter, manual>>

\* the caller has taken the aggregate
FetchReturn ==
    /\ agg.pc = "returned"
    /\ agg' = NoFetch
    /\ UNCHANGED <<ingestion, page, pipeline, aux, cast, clock, sched, limiter, manual>>

\* the items synced while an aggregate is fetched: an expense on data, a
\* savings deposit and an income
FetchItems ==
    { [sms_hash |-> 1, amount |-> 2500, type |-> "EXPENSE", category |-> "DATA", date |-> 1],
      [sms_hash |-> 2, amount |-> 4000, type |-> "EXPENSE", category |-> "SAVINGS", date |-> 1],
      [sms_hash |-> 3, amount |-> 10000, type |-> "INCOME", category |-> "SALARY", date |-> 1] }

FetchBodies ==
    { [json_ok |-> TRUE, device_id |-> "d1", has_transactions |-> TRUE,
       transactions |-> <<t>>, timestamp |-> 1] : t \in FetchItems }

\* the admin panel and the process-wide services before any request
AdminInit ==
    /\ cast = NoCast
    /\ clock = 0
    /\ sched = Started
    /\ limiter = NoRequests
    /\ agg = NoFetch
    /\ manual = Sleeping

-----------------------------------------------------------------------------
(* The specifications *)

Init ==
    /\ users = {}
    /\ tokens = {}
    /\ transactions = {}
    /\ deleting = {}
    /\ sync = [p \in Procs |-> Idle]
    /\ page = NoPage
    /\ user_insights = {}
    /\ geminiCalls = {}
    /\ pushes = {}
    /\ gen = NoAnswer
    /\ sweep = Sleeping
    /\ svc = NoCall
    /\ reg = [p \in Procs |-> NoRegister]
    /\ answers = << >>
    /\ AdminInit

\* one request goroutine; every user operation interleaves with its call
Next ==
    \/ \E d \in Devices : Register(d, "")
    \/ \E u \in UserIds, b \in BOOLEAN : UpdateConsent(u, b)
    \/ \E u \in UserIds : DeleteDataTransactions(u)
    \/ \E u \in UserIds : DeleteDataUser(u)
    \/ \E u \in UserIds : DeleteDataUserFails(u)
    \/ \E p \in Serial, u \in UserIds, body \in SyncBodies : SyncStart(p, u, body)
    \/ \E p \in Serial : SyncInsert(p)
    \/ \E p \in Serial : SyncCommit(p)
    \/ \E p \in Serial : SyncReturn(p)

Spec == Init /\ [][Next]_vars

\* two request goroutines racing on the rows of one device's user
NextRace ==
    \/ Register("d1", "")
    \/ UpdateConsent("u1", TRUE)
    \/ \E p \in Procs, body \in RaceBodies : SyncStart(p, "u1", body)
    \/ \E p \in Procs : SyncInsert(p)
    \/ \E p \in Procs : SyncDeadlock(p)
    \/ \E p \in Procs : SyncCommit(p)
    \/ \E p \in Procs : SyncReturn(p)

SpecRace == Init /\ [][NextRace]_vars

\* the transaction listing, asked with every pair of query values
NextPage ==
    \/ Register("d1", "")
    \/ GetTransactions("u1")
    \/ GetTransactionsReturn

SpecPage == Init /\ [][NextPage]_vars

\* the fcm_token values Register stores
FCMTokens == {"", "fcm1"}

\* the users rows a device can have: none (never registered, or deleted), or
\* its row after Register and UpdateConsent
DeviceRows(d) ==
    { {} } \cup
    { { [id |-> NewUserID(d), device_id |-> d, consent_given |-> c, fcm_token |-> t] }
      : c \in BOOLEAN, t \in FCMTokens }

\* rows Sync has stored for user u: one dated before the daily window, an
\* income and a savings deposit dated on the window's first instant
OldRow(u) ==
    [id |-> <<u, 1, 1>>, user_id |-> u, sms_hash |-> 1, amount |-> 2500,
     type |-> "EXPENSE", category |-> "DATA", date |-> Now - DailyWindow - 1]

RecentRows(u) ==
    { [id |-> <<u, 2, 1>>, user_id |-> u, sms_hash |-> 2, amount |-> 10000,
       type |-> "INCOME", category |-> "SALARY", date |-> Now - DailyWindow],
      [id |-> <<u, 3, 1>>, user_id |-> u, sms_hash |-> 3, amount |-> 2500,
       type |-> "EXPENSE", category |-> "SAVINGS", date |-> Now - DailyWindow] }

\* the transactions of a device's user: none without a users row (the
\* foreign key), any of the rows above with one
DeviceStores(d, rows) ==
    IF rows = {} THEN { {} }
    ELSE { old \cup recent : old \in { {}, {OldRow(NewUserID(d))} },
                             recent \in SUBSET RecentRows(NewUserID(d)) }

\* the pipeline starts on tables that Register, UpdateConsent, Sync and
\* DeleteData have left; every device holds a bearer token
InitInsights ==
    /\ \E r1 \in DeviceRows("d1"), r2 \in DeviceRows("d2") :
          /\ users = r1 \cup r2
          /\ \E s1 \in DeviceStores("d1", r1), s2 \in DeviceStores("d2", r2) :
                transactions = s1 \cup s2
    /\ tokens = UserIds
    /\ deleting = {}
    /\ sync = [p \in Procs |-> Idle]
    /\ page = NoPage
    /\ user_insights = {}
    /\ geminiCalls = {}
    /\ pushes = {}
    /\ gen = NoAnswer
    /\ sweep = Sleeping
    /\ svc = NoCall
    /\ reg = [p \in Procs |-> NoRegister]
    /\ answers = << >>
    /\ AdminInit

NextInsights ==
    \/ \E u \in UserIds : GenerateInsights(u)
    \/ GenerateInsightsReturn
    \/ SweepStart
    \/ SweepUser
    \/ SweepEnd

SpecInsights == InitInsights /\ [][NextInsights]_vars

\* the transactions the service functions are observed on: of user u1 an
\* income of today, expenses on the first instants of the daily and the weekly
\* window and one day before the latter, an income filed under SAVINGS on the
\* first instant of the monthly window and an expense dated tomorrow; one
\* expense of user u2
Ledger ==
    { [id |-> <<"u1", 1, 1>>, user_id |-> "u1", sms_hash |-> 1, amount |-> 10000,
       type |-> "INCOME", category |-> "SALARY", date |-> Now],
      [id |-> <<"u1", 2, 1>>, user_id |-> "u1", sms_hash |-> 2, amount |-> 10000,
       type |-> "EXPENSE", category |-> "DATA", date |-> Now - DailyWindow],
      [id |-> <<"u1", 3, 1>>, user_id |-> "u1", sms_hash |-> 3, amount |-> 2500,
       type |-> "EXPENSE", category |-> "SAVINGS", date |-> Now - WeeklyWindow],
      [id |-> <<"u1", 4, 1>>, user_id |-> "u1", sms_hash |-> 4, amount |-> 500,
       type |-> "EXPENSE", category |-> "DATA", date |-> Now - WeeklyWindow - 1],
      [id |-> <<"u1", 5, 1>>, user_id |-> "u1", sms_hash |-> 5, amount |-> 500,
       type |-> "INCOME", category |-> "SAVINGS", date |-> Now - MonthlyWindow],
      [id |-> <<"u1", 6, 1>>, user_id |-> "u1", sms_hash |-> 6, amount |-> 700,
       type |-> "EXPENSE", category |-> "FOOD", date |-> Now + 1],
      [id |-> <<"u2", 7, 1>>, user_id |-> "u2", sms_hash |-> 7, amount |-> 300,
       type |-> "EXPENSE", category |-> "DATA", date |-> Now] }

\* both devices are registered and Sync has stored any part of the ledger
InitService ==
    /\ users = { [id |-> NewUserID(d), device_id |-> d, consent_given |-> TRUE,
                  fcm_token |-> ""] : d \in Devices }
    /\ tokens = UserIds
    /\ transactions \in SUBSET Ledger
    /\ deleting = {}
    /\ sync = [p \in Procs |-> Idle]
    /\ page = NoPage
    /\ user_insights = {}
    /\ geminiCalls = {}
    /\ pushes = {}
    /\ gen = NoAnswer
    /\ sweep = Sleeping
    /\ svc = NoCall
    /\ reg = [p \in Procs |-> NoRegister]
    /\ answers = << >>
    /\ AdminInit

NextService ==
    \/ CallFetchSpendingData
    \/ CallAnalyzeSpending
    \/ CallGenerateNotificationText
    \/ CallReturn

SpecService == InitService /\ [][NextService]_vars

\* the device whose registrations race
RaceDevices == {"d1"}

\* Register calls of one device on two request goroutines, no DeleteData
NextRegister ==
    \/ \E p \in Procs, d \in RaceDevices, tok \in FCMTokens : RegisterSelect(p, d, tok)
    \/ \E p \in Procs : RegisterInsert(p)
    \/ \E p \in Procs : RegisterRespond(p)

SpecRegister == Init /\ [][NextRegister]_vars

\* the user of a device for Broadcast: none, or one with its own push token
\* or the empty one
CastUsers(d) ==
    { {} } \cup
    { { [id |-> NewUserID(d), device_id |-> d, consent_given |-> TRUE, fcm_token |-> t] }
      : t \in {"", IF d = "d1" THEN "fcm1" ELSE "fcm2"} }

\* the transactions of a device's user with the instant Sync stored them
\* (created_at): one on the first instant of the active window, one the day
\* before
CastStores(d, rows) ==
    IF rows = {} THEN { {} }
    ELSE SUBSET
         { [id |-> <<NewUserID(d), 1, 1>>, user_id |-> NewUserID(d), sms_hash |-> 1,
            amount |-> 2500, type |-> "EXPENSE", category |-> "DATA",
            date |-> Now - ActiveWindow, created_at |-> Now - ActiveWindow],
           [id |-> <<NewUserID(d), 2, 1>>, user_id |-> NewUserID(d), sms_hash |-> 2,
            amount |-> 2500, type |-> "EXPENSE", category |-> "DATA",
            date |-> Now - ActiveWindow - 1, created_at |-> Now - ActiveWindow - 1] }

InitBroadcast ==
    /\ \E r1 \in CastUsers("d1"), r2 \in CastUsers("d2") :
          /\ users = r1 \cup r2
          /\ \E s1 \in CastStores("d1", r1), s2 \in CastStores("d2", r2) :
                transactions = s1 \cup s2
    /\ tokens = UserIds
    /\ deleting = {}
    /\ sync = [p \in Procs |-> Idle]
    /\ page = NoPage
    /\ user_insights = {}
    /\ geminiCalls = {}
    /\ pushes = {}
    /\ gen = NoAnswer
    /\ sweep = Sleeping
    /\ svc = NoCall
    /\ reg = [p \in Procs |-> NoRegister]
    /\ answers = << >>
    /\ AdminInit

NextBroadcast ==
    \/ Broadcast
    \/ BroadcastReturn

SpecBroadcast == InitBroadcast /\ [][NextBroadcast]_vars

\* the rows a batch is stored on: user u1 has consented and earlier calls of
\* Sync have stored any of the well-formed items
InitOrder ==
    /\ users = { [id |-> "u1", device_id |-> "d1", consent_given |-> TRUE,
                  fcm_token |-> ""] }
    /\ tokens = {"u1"}
    /\ transactions \in
          { rows \in SUBSET { [id |-> <<"u1", t.sms_hash, 1>>, user_id |-> "u1",
                               sms_hash |-> t.sms_hash, amount |-> t.amount,
                               type |-> t.type, category |-> t.category,
                               date |-> t.date]
                              : t \in { x \in TransactionInput :
                                          StrLen(x.type) <= TypeColumnLen } } :
              \A r1, r2 \in rows : r1.sms_hash = r2.sms_hash => r1 = r2 }
    /\ deleting = {}
    /\ sync = [p \in Procs |-> Idle]
    /\ page = NoPage
    /\ user_insights = {}
    /\ geminiCalls = {}
    /\ pushes = {}
    /\ gen = NoAnswer
    /\ sweep = Sleeping
    /\ svc = NoCall
    /\ reg = [p \in Procs |-> NoRegister]
    /\ answers = << >>
    /\ AdminInit

NextOrder ==
    \/ CallSync
    \/ CallReturn

SpecOrder == InitOrder /\ [][NextOrder]_vars

\* the process starts at any hour of a day, 06:00 included
InitScheduler ==
    /\ users = {}
    /\ tokens = {}
    /\ transactions = {}
    /\ deleting = {}
    /\ sync = [p \in Procs |-> Idle]
    /\ page = NoPage
    /\ user_insights = {}
    /\ geminiCalls = {}
    /\ pushes = {}
    /\ gen = NoAnswer
    /\ sweep = Sleeping
    /\ svc = NoCall
    /\ reg = [p \in Procs |-> NoRegister]
    /\ answers = << >>
    /\ cast = NoCast
    /\ clock \in 0..(Day - 1)
    /\ sched = Started
    /\ limiter = NoRequests
    /\ agg = NoFetch
    /\ manual = Sleeping

NextScheduler ==
    \/ SchedulerArm
    \/ SchedulerWake
    \/ SchedulerDone
    \/ Tick

SpecScheduler == InitScheduler /\ [][NextScheduler]_vars

\* user u1 has consented and syncs while an aggregate is fetched
InitFetch ==
    /\ users = { [id |-> "u1", device_id |-> "d1", consent_given |-> TRUE,
                  fcm_token |-> ""] }
    /\ tokens = {"u1"}
    /\ transactions = {}
    /\ deleting = {}
    /\ sync = [p \in Procs |-> Idle]
    /\ page = NoPage
    /\ user_insights = {}
    /\ geminiCalls = {}
    /\ pushes = {}
    /\ gen = NoAnswer
    /\ sweep = Sleeping
    /\ svc = NoCall
    /\ reg = [p \in Procs |-> NoRegister]
    /\ answers = << >>
    /\ AdminInit

NextFetch ==
    \/ \E p \in Serial, body \in FetchBodies : SyncStart(p, "u1", body)
    \/ \E p \in Serial : SyncInsert(p)
    \/ \E p \in Serial : SyncCommit(p)
    \/ \E p \in Serial : SyncReturn(p)
    \/ FetchTotals
    \/ FetchCategories
    \/ FetchSavings
    \/ FetchReturn

SpecFetch == InitFetch /\ [][NextFetch]_vars

\* the scheduler's sweep and the sweep an admin triggers
NextOverlap ==
    \/ SweepStart
    \/ SweepUser
    \/ SweepEnd
    \/ TriggerInsights
    \/ ManualUser
    \/ ManualEnd

SpecOverlap == InitInsights /\ [][NextOverlap]_vars

\* the insights storeInsights has written for a user: up to MaxStored tips
StoredTips == UNION { [1..n -> {TipInsight}] : n \in 0..MaxStored }

\* the tables the listing is asked on: the users and the transactions of
\* InitBroadcast, and for each user the insights stored for it
InitListing ==
    /\ \E r1 \in CastUsers("d1"), r2 \in CastUsers("d2") :
          /\ users = r1 \cup r2
          /\ \E s1 \in CastStores("d1", r1), s2 \in CastStores("d2", r2) :
                transactions = s1 \cup s2
          /\ \E i1 \in StoredTips, i2 \in StoredTips :
                user_insights =
                    storeInsights(storeInsights({}, "u1", IF r1 = {} THEN << >> ELSE i1),
                                  "u2", IF r2 = {} THEN << >> ELSE i2)
    /\ tokens = UserIds
    /\ deleting = {}
    /\ sync = [p \in Procs |-> Idle]
    /\ page = NoPage
    /\ geminiCalls = {}
    /\ pushes = {}
    /\ gen = NoAnswer
    /\ sweep = Sleeping
    /\ svc = NoCall
    /\ reg = [p \in Procs |-> NoRegister]
    /\ answers = << >>
    /\ AdminInit

NextListing ==
    \/ CallGetUsers
    \/ CallReturn

SpecListing == InitListing /\ [][NextListing]_vars

\* the requests of one client on two request goroutines
NextLimiter ==
    \/ \E p \in Procs : LimiterRead(p)
    \/ \E p \in Procs : LimiterWrite(p)
    \/ \E p \in Procs : LimiterCrash(p)
    \/ \E p \in Procs : LimiterCheck(p)

SpecLimiter == Init /\ [][NextLimiter]_vars

\* the scheduler alone: startDailyScheduler sleeps until 06:00 (the job is
\* idle), runs RunDailyAnalysis, and sleeps again
NextSweep ==
    \/ SweepStart
    \/ SweepUser
    \/ SweepEnd

\* time.Sleep returns, every iteration of the loop ends (the HTTP client has a
\* timeout), and rows.Next runs out of rows
SpecSweep ==
    /\ InitInsights
    /\ [][NextSweep]_vars
    /\ WF_vars(SweepStart)
    /\ WF_vars(SweepUser)
    /\ WF_vars(SweepEnd)

-----------------------------------------------------------------------------
(* Properties of the ingestion *)

HashesOf(b) == { b[k].sms_hash : k \in 1..Len(b) }

DistinctHashes(b) ==
    \A j, k \in 1..Len(b) : j # k => b[j].sms_hash # b[k].sms_hash

WellFormed(b) == \A k \in 1..Len(b) : StrLen(b[k].type) <= TypeColumnLen

\* row r holds item t for user u
Holds(r, u, t) ==
    /\ r.user_id = u /\ r.sms_hash = t.sms_hash /\ r.amount = t.amount
    /\ r.type = t.type /\ r.category = t.category /\ r.date = t.date

\* the step in which goroutine p takes a request
Begins(p) == sync[p].pc = "idle" /\ sync'[p].pc # "idle"

\* the step in which goroutine p's call answers 200 after its Commit
CommitsOK(p) ==
    sync[p].pc = "tx" /\ sync'[p].pc = "done" /\ sync'[p].status = StatusOK

\* C1: Sync is idempotent. A call that answers 200 for a batch of N well-formed
\* items with pairwise distinct hashes, undisturbed by other writers of the
\* user's rows, returns inserted = N, skipped = 0 and adds exactly the N rows
\* when none of the hashes was stored, and returns inserted = 0, skipped = N
\* and leaves the table as it was when all of them were stored.
C1_IdempotentSync ==
    [][\A p \in Procs :
         LET s == sync[p]
             b == s.req.transactions
             added == transactions' \ transactions
         IN (/\ CommitsOK(p) /\ s.disturbed = "no"
             /\ DistinctHashes(b) /\ WellFormed(b))
            =>
            /\ (\A h \in HashesOf(b) : RowsOf(transactions, s.user, h) = {})
               => /\ sync'[p].insertedCount = Len(b)
                  /\ sync'[p].skippedCount = 0
                  /\ transactions \subseteq transactions'
                  /\ Cardinality(added) = Len(b)
                  /\ \A k \in 1..Len(b) : \E r \in added : Holds(r, s.user, b[k])
            /\ (\A h \in HashesOf(b) : RowsOf(transactions, s.user, h) # {})
               => /\ sync'[p].insertedCount = 0
                  /\ sync'[p].skippedCount = Len(b)
                  /\ transactions' = transactions
      ]_vars

\* a resubmitted batch of two items has been answered inserted 0, skipped 2
C1_Witness ==
    \E p \in Procs :
        /\ sync[p].pc = "done" /\ sync[p].status = StatusOK
        /\ sync[p].disturbed = "no"
        /\ Len(sync[p].req.transactions) = 2
        /\ DistinctHashes(sync[p].req.transactions)
        /\ sync[p].insertedCount = 0 /\ sync[p].skippedCount = 2
        /\ \A k \in 1..2 : \E r \in transactions :
               Holds(r, sync[p].user, sync[p].req.transactions[k])

\* C2: the table holds at most one row per (user, content hash) in every
\* reachable state of racing Sync calls, and once a call has answered 200 the
\* table holds exactly one row for each hash of its batch (so two racing
\* submissions of one batch end as a single submission does).
C2_OneRowPerKey ==
    /\ \A r1, r2 \in transactions :
          (r1.user_id = r2.user_id /\ r1.sms_hash = r2.sms_hash) => r1 = r2
    /\ \A p \in Procs :
          (sync[p].pc = "done" /\ sync[p].status = StatusOK)
          => \A h \in HashesOf(sync[p].req.transactions) :
                 Cardinality(RowsOf(transactions, sync[p].user, h)) = 1

\* two overlapping calls with the same batch of two hashes have both answered
\* 200: one inserted both items, the other, whose transaction was open when
\* the first committed, skipped both
C2_Witness ==
    \E p, q \in Procs :
        /\ p # q
        /\ sync[p].pc = "done" /\ sync[p].status = StatusOK
        /\ sync[q].pc = "done" /\ sync[q].status = StatusOK
        /\ sync[p].user = sync[q].user
        /\ sync[p].req = sync[q].req
        /\ Cardinality(HashesOf(sync[p].req.transactions)) = 2
        /\ sync[p].insertedCount = 2
        /\ sync[q].skippedCount = 2 /\ sync[q].disturbed = "committed"

\* C3: a Sync call of a user whose consent flag is false, or who has no row,
\* is answered before the loop and inserts nothing: the table is unchanged and
\* the call holds no row.
C3_ConsentGate ==
    [][\A p \in Procs :
         (Begins(p) /\ ~(\E r \in users : r.id = sync'[p].user /\ r.consent_given))
         => /\ sync'[p].pc = "done"
            /\ sync'[p].status \in {StatusBadRequest, StatusForbidden}
            /\ sync'[p].pending = {} /\ sync'[p].insertedCount = 0
            /\ transactions' = transactions
      ]_vars

\* a call of a deleted user (token still valid, no row) has been answered 403
C3_Witness ==
    \E p \in Procs :
        /\ sync[p].pc = "done" /\ sync[p].status = StatusForbidden
        /\ sync[p].user \in tokens
        /\ ~\E r \in users : r.id = sync[p].user
        /\ sync[p].pending = {}

\* C4 as claimed: every Sync request of a user without consent is answered
\* 403, whatever its body.
C4_AlwaysForbidden ==
    [][\A p \in Procs :
         (Begins(p) /\ ~(\E r \in users : r.id = sync'[p].user /\ r.consent_given))
         => sync'[p].status = StatusForbidden
      ]_vars

\* the binding outcome of a request, read from the body fields themselves
BodyBinds(body) ==
    body.json_ok /\ body.device_id # "" /\ body.has_transactions /\ body.timestamp # 0

\* C4 amended: a Sync request of a user without consent is answered 403 when
\* its body binds, and 400 when it does not (the binding comes first); in
\* both cases before the loop.
C4_ForbiddenWhenBound ==
    [][\A p \in Procs :
         (Begins(p) /\ ~(\E r \in users : r.id = sync'[p].user /\ r.consent_given))
         => /\ sync'[p].pc = "done"
            /\ BodyBinds(sync'[p].req) => sync'[p].status = StatusForbidden
            /\ ~BodyBinds(sync'[p].req) => sync'[p].status = StatusBadRequest
      ]_vars

\* a registered user whose consent flag is false has been answered 403 for a
\* body that binds
C4_Witness ==
    \E p \in Procs :
        /\ sync[p].pc = "done" /\ sync[p].status = StatusForbidden
        /\ BodyBinds(sync[p].req)
        /\ \E r \in users : r.id = sync[p].user /\ ~r.consent_given

\* C5: the rows a call wrote are in the table all together or not at all, and
\* after a call has answered 500 (its Commit failed) none of them is.
C5_CommitAllOrNothing ==
    \A p \in Procs :
        /\ sync[p].pending \subseteq transactions
           \/ sync[p].pending \cap transactions = {}
        /\ (sync[p].pc = "done" /\ sync[p].status = StatusInternalServerError)
           => sync[p].pending \cap transactions = {}

\* the Commit of a healthy transaction holding two inserted rows has failed
C5_Witness ==
    \E p \in Procs :
        /\ sync[p].pc = "done" /\ sync[p].status = StatusInternalServerError
        /\ ~sync[p].failed
        /\ sync[p].insertedCount = 2 /\ Cardinality(sync[p].pending) = 2
        /\ sync[p].pending \cap transactions = {}

\* C6 as claimed: after an item's INSERT has failed for a reason other than
\* the uniqueness conflict, a later item that is well-formed and new is still
\* inserted and counted.
C6_ContinuesAfterFailure ==
    [][\A p \in Procs :
         LET s == sync[p]
             t == s.req.transactions[s.i]
         IN (/\ s.pc = "tx" /\ s.failed /\ sync'[p].pc = "tx"
             /\ sync'[p].i = s.i + 1
             /\ StrLen(t.type) <= TypeColumnLen
             /\ \E r \in users : r.id = s.user
             /\ RowsOf(transactions \cup s.pending, s.user, t.sms_hash) = {})
            => /\ sync'[p].insertedCount = s.insertedCount + 1
               /\ \E r \in sync'[p].pending : Holds(r, s.user, t)
      ]_vars

\* C7: a 200 response has inserted + skipped = total = the number of
\* submitted items, and the rows the call adds to the table are inserted many
\* rows of the user.
C7_CountsAddUp ==
    [][\A p \in Procs :
         CommitsOK(p)
         => /\ sync'[p].insertedCount + sync'[p].skippedCount
                 = Len(sync'[p].req.transactions)
            /\ sync'[p].req = sync[p].req
            /\ Cardinality(transactions' \ transactions) = sync'[p].insertedCount
            /\ \A r \in transactions' \ transactions : r.user_id = sync'[p].user
            /\ transactions \subseteq transactions'
      ]_vars

\* a batch repeating one hash has been answered inserted 1, skipped 1
C7_Witness ==
    \E p \in Procs :
        /\ sync[p].pc = "done" /\ sync[p].status = StatusOK
        /\ Len(sync[p].req.transactions) = 2
        /\ Cardinality(HashesOf(sync[p].req.transactions)) = 1
        /\ sync[p].insertedCount = 1 /\ sync[p].skippedCount = 1

\* C8: a stored transaction stays as it is in every step, except the steps of
\* its own user's DeleteData.
C8_StoredRowsImmutable ==
    [][\A r \in transactions :
         \/ r \in transactions'
         \/ r.user_id \in (deleting' \ deleting) \cup (deleting \ deleting')
      ]_vars

\* a call has answered 200 for an item whose hash is stored with other content
C8_Witness ==
    \E p \in Procs :
        /\ sync[p].pc = "done" /\ sync[p].status = StatusOK
        /\ \E k \in 1..Len(sync[p].req.transactions) :
             \E r \in transactions :
                /\ r.user_id = sync[p].user
                /\ r.sms_hash = sync[p].req.transactions[k].sms_hash
                /\ r.amount # sync[p].req.transactions[k].amount
                /\ r.id \notin { w.id : w \in sync[p].pending }

-----------------------------------------------------------------------------
(* Properties of the transaction listing *)

\* q is a decimal numeral: an optional sign, then digits only
IsNumeral(q) ==
    LET digits == IF Len(q) > 0 /\ q[1] \in {"+", "-"} THEN Tail(q) ELSE q
    IN Len(digits) > 0 /\ \A k \in 1..Len(digits) : DigitVal(digits[k]) >= 0

RECURSIVE PlaceValue(_, _)
\* the digits d[k..] read as a decimal number
PlaceValue(d, k) ==
    IF k > Len(d) THEN 0
    ELSE DigitVal(d[k]) * 10 ^ (Len(d) - k) + PlaceValue(d, k + 1)

\* the integer a numeral denotes
NumeralValue(q) ==
    IF q[1] = "-" THEN 0 - PlaceValue(Tail(q), 1)
    ELSE IF q[1] = "+" THEN PlaceValue(Tail(q), 1)
    ELSE PlaceValue(q, 1)

\* the lengths of the prefixes of q that are numerals
NumeralPrefixes(q) == { n \in 1..Len(q) : IsNumeral(SubSeq(q, 1, n)) }

\* whether a query value asks for a number: it begins with a numeral
Requests(q) == NumeralPrefixes(q) # {}

\* the number a query value asks for: its longest leading numeral
Requested(q) ==
    NumeralValue(SubSeq(q, 1, CHOOSE n \in NumeralPrefixes(q) :
                                  \A m \in NumeralPrefixes(q) : m <= n))

\* C9 as claimed: the page size is min(requested, 100) for every requested
\* size > 0, and 50 when the requested size is <= 0, absent or unparseable; a
\* negative requested offset is replaced by 0.
C9_PageSizeClamped ==
    page.status # 0
    => /\ (Requests(page.limitQ) /\ Requested(page.limitQ) > 0)
          => page.limit = IF Requested(page.limitQ) <= 100
                          THEN Requested(page.limitQ) ELSE 100
       /\ (~Requests(page.limitQ) \/ Requested(page.limitQ) <= 0)
          => page.limit = 50
       /\ (Requests(page.offsetQ) /\ Requested(page.offsetQ) < 0)
          => page.offset = 0

\* C9 amended: the page size is the requested size when that is in 1..100,
\* and 50 in every other case (requested size <= 0 or > 100, parameter absent
\* or not beginning with a numeral); the offset is the requested offset when
\* that is >= 0 and 0 in every other case. The requested number is the longest
\* leading numeral of the parameter's value.
C9_PageSizeInRangeOrDefault ==
    page.status # 0
    => /\ (Requests(page.limitQ) /\ Requested(page.limitQ) \in 1..100)
          => page.limit = Requested(page.limitQ)
       /\ (~Requests(page.limitQ) \/ Requested(page.limitQ) \notin 1..100)
          => page.limit = 50
       /\ (Requests(page.offsetQ) /\ Requested(page.offsetQ) >= 0)
          => page.offset = Requested(page.offsetQ)
       /\ (~Requests(page.offsetQ) \/ Requested(page.offsetQ) < 0)
          => page.offset = 0

\* the listing asked with limit=101 and offset=-1 has answered limit 50, offset 0
C9_Witness ==
    /\ page.status = StatusOK
    /\ page.limitQ = <<"1", "0", "1">>
    /\ page.offsetQ = <<"-", "1">>
    /\ page.limit = 50 /\ page.offset = 0

-----------------------------------------------------------------------------
(* Properties of the insight pipeline *)

\* the stored transactions of user u dated in the daily window
DailyTransactions(u) ==
    { r \in transactions : r.user_id = u /\ r.date >= Now - DailyWindow }

-----------------------------------------------------------------------------
(* Properties of the insight services *)

\* the call AnalyzeSpending(ctx, data) has returned
Analyzed == svc.fn = "AnalyzeSpending"

\* the Gemini API has answered the call with a text that is no JSON array
Unparseable ==
    /\ Analyzed
    /\ svc.arg.ctx = RequestContext
    /\ svc.arg.reply.ok
    /\ ~svc.arg.reply.json

Titles(insights) == [k \in 1..Len(insights) |-> insights[k].Title]

\* the list the aggregate determines: savings, then the sign of the balance
Determined(data) ==
    (IF data.SavingsDeposits > 0 THEN <<"Great Saving Habit!">> ELSE << >>)
    \o (IF data.NetBalance > 0 THEN <<"Positive Balance">> ELSE << >>)
    \o (IF data.NetBalance < 0 THEN <<"Spending Alert">> ELSE << >>)

\* C11: when the response cannot be parsed, AnalyzeSpending returns without
\* error exactly the fallback list the aggregate determines: a savings insight
\* iff SavingsDeposits > 0, then a positive-balance insight iff NetBalance > 0
\* or a spending alert iff NetBalance < 0, and nothing else.
C11_FallbackList ==
    Unparseable =>
        /\ ~svc.out.err
        /\ Titles(svc.out.insights) = Determined(svc.arg.data)
        /\ \A k \in 1..Len(svc.out.insights) :
              svc.out.insights[k].Category =
                  CASE svc.out.insights[k].Title = "Great Saving Habit!" -> "savings"
                    [] svc.out.insights[k].Title = "Positive Balance" -> "tip"
                    [] OTHER -> "spending"

\* the claim's example: a balance of +500 without savings gives exactly the
\* positive-balance insight
C11_Witness ==
    /\ Unparseable
    /\ svc.arg.data.NetBalance = 500
    /\ svc.arg.data.SavingsDeposits = 0
    /\ Titles(svc.out.insights) = <<"Positive Balance">>

\* C12: whenever AnalyzeSpending returns without error for a non-empty
\* aggregate, the returned list holds 2 or 3 insights, on the parsed path and
\* on the fallback path alike.
C12_TwoOrThreeInsights ==
    (Analyzed /\ ~svc.out.err /\ svc.arg.data.TransactionCount > 0)
        => Len(svc.out.insights) \in 2..3

\* C13: for a non-empty aggregate the generator always gives its caller a
\* non-error result: a failure of the text-generation service is answered with
\* the fallback insights the aggregate determines.
C13_ServiceFailureFallsBack ==
    (Analyzed /\ svc.arg.ctx = RequestContext /\ svc.arg.data.TransactionCount > 0)
        => /\ ~svc.out.err
           /\ ~svc.arg.reply.ok => Titles(svc.out.insights) = Determined(svc.arg.data)

\* the position of the first insight of priority high, or else 1
FirstPreferred(insights) ==
    IF \E k \in 1..Len(insights) : insights[k].Priority = "high"
    THEN CHOOSE k \in 1..Len(insights) :
            /\ insights[k].Priority = "high"
            /\ \A j \in 1..(k - 1) : insights[j].Priority # "high"
    ELSE 1

\* C14: GenerateNotificationText of a non-empty list returns the title and
\* message of the first insight of priority high if there is one, and
\* otherwise of the first insight of the list.
C14_FirstHighElseFirst ==
    (svc.fn = "GenerateNotificationText" /\ svc.arg # << >>)
        => /\ svc.out.title = svc.arg[FirstPreferred(svc.arg)].Title
           /\ svc.out.body = svc.arg[FirstPreferred(svc.arg)].Message

\* the length of a period in days: daily 24 h, weekly 7 d, monthly 30 d
PeriodDays(period) ==
    CASE period = "weekly" -> 7
      [] period = "monthly" -> 30
      [] OTHER -> 1

\* the user's transactions that occurred in [now - period, now]
Occurred(u, period) ==
    { r \in transactions : /\ r.user_id = u
                           /\ r.date >= Now - PeriodDays(period)
                           /\ r.date <= Now }

\* C18: fetchSpendingData(user, period) returns count, total income, total
\* expenses, net balance, per-category EXPENSE sums and SAVINGS figure computed
\* over exactly the user's transactions that occurred in [now - period, now].
C18_AggregateOverWindow ==
    (svc.fn = "fetchSpendingData" /\ svc.arg.catOK /\ svc.arg.savOK) =>
        LET rows == Occurred(svc.arg.user, svc.arg.period)
            income == { r \in rows : r.type = "INCOME" }
            expenses == { r \in rows : r.type = "EXPENSE" }
        IN /\ svc.out.TransactionCount = Cardinality(rows)
           /\ svc.out.TotalIncome = SumAmount(income)
           /\ svc.out.TotalExpenses = SumAmount(expenses)
           /\ svc.out.NetBalance = SumAmount(income) - SumAmount(expenses)
           /\ DOMAIN svc.out.ByCategory = { r.category : r \in expenses }
           /\ \A c \in DOMAIN svc.out.ByCategory :
                 svc.out.ByCategory[c] = SumAmount({ r \in expenses : r.category = c })
           /\ svc.out.SavingsDeposits =
                 SumAmount({ r \in expenses : r.category = "SAVINGS" })

-----------------------------------------------------------------------------
(* Properties of the daily sweep *)

\* the users with consent granted and a push token that is not empty
Eligible ==
    { x.id : x \in { r \in users : r.consent_given /\ r.fcm_token \notin {NULL, ""} } }

\* C15: if generation fails for one user of a sweep, every other eligible user
\* of the sweep is still visited, the sweep runs to completion, and the
\* scheduler returns to sleeping and later starts the next sweep.
C15_SweepSurvivesFailures ==
    /\ [][(sweep.pc = "running" /\ sweep'.pc = "idle") => Eligible \subseteq sweep'.seen]_vars
    /\ (sweep.pc = "running") ~> (sweep.pc = "idle")
    /\ (sweep.pc = "idle") ~> (sweep.pc = "running")

\* a sweep has completed in which generation failed for a user and both
\* eligible users were visited
C15_Witness ==
    /\ sweep.pc = "idle"
    /\ sweep.errorCount >= 1
    /\ Eligible = UserIds
    /\ sweep.seen = UserIds

\* the iteration of the sweep that a step ends: a visited user whose daily
\* aggregate is not empty and for whom the Gemini API answers successfully
Answered ==
    /\ sweep'.last.user # ""
    /\ sweep'.last # sweep.last \/ sweep'.seen # sweep.seen
    /\ sweep'.last.analysed
    /\ sweep'.last.reply.ok

\* the insights the answer of the iteration yields, and their notification
Generated(catOK, savOK) ==
    AnalyzeSpending(RequestContext,
                    fetchSpendingData(sweep'.last.user, "daily", catOK, savOK),
                    sweep'.last.reply).insights

Notification(row, insights) ==
    [user |-> row.id, token |-> row.fcm_token,
     title |-> GenerateNotificationText(insights).title,
     body |-> GenerateNotificationText(insights).body]

\* C16: in a sweep, for each visited user whose daily aggregate is non-empty
\* and for whom the service answers successfully, the generated insights are
\* appended to the insight store and exactly one push is attempted when the
\* user has a token (none without an FCM service); the stored insights stay
\* whatever becomes of the push.
C16_StoresThenPushes ==
    [][Answered =>
         \E catOK \in BOOLEAN, savOK \in BOOLEAN :
            /\ user_insights' =
                  storeInsights(user_insights, sweep'.last.user, Generated(catOK, savOK))
            /\ \A row \in sweep.rows \ sweep'.rows :
                  \/ pushes' = pushes \cup {Notification(row, Generated(catOK, savOK))}
                  \/ pushes' = pushes]_vars

\* C17: a sweep visits exactly the users with consent granted and a non-empty
\* push token; a user without a push token, or with an empty one, is never
\* visited, causes no text-generation call and has no push attempted.
C17_VisitsOnlyTokenHolders ==
    /\ sweep.seen \subseteq Eligible
    /\ geminiCalls \subseteq Eligible
    /\ { n.user : n \in pushes } \subseteq Eligible
    /\ (sweep.pc = "running" /\ sweep.rows = {}) => sweep.seen = Eligible

\* C25: in a sweep the inter-user delay follows every processed user: between
\* any two consecutive calls of the text-generation service in one sweep the
\* delay occurs, also when the first of the two calls failed.
C25_DelayBetweenCalls ==
    [][(sweep.pc = "running" /\ sweep'.seen # sweep.seen /\ sweep'.last.analysed)
          => sweep.rested]_vars

-----------------------------------------------------------------------------
(* Properties of DeleteData and Register *)

\* DeleteData of user u has returned success: the token is still valid and
\* the users row is gone (Register never issues the id again)
Deleted(u) == u \in tokens /\ UserRow(u) = {}

\* the Sync call that goroutine p begins in this step is rejected
RejectedAtStart(p) ==
    /\ sync'[p].pc = "done"
    /\ sync'[p].status \in {StatusBadRequest, StatusForbidden}
    /\ transactions' = transactions

\* C19: after DeleteData has returned success the store holds no user row, no
\* transaction and no insight of the user, also when a Sync of the user runs
\* concurrently with the deletion; a later Sync with the user's token is
\* rejected and inserts nothing.
C19_DeletedStaysDeleted ==
    /\ [](\A u \in UserIds :
            Deleted(u) => /\ \A r \in transactions : r.user_id # u
                          /\ \A r \in user_insights : r.user_id # u)
    /\ [][\A p \in Procs, u \in UserIds :
            (Deleted(u) /\ sync[p].pc = "idle" /\ sync'[p].pc # "idle"
                /\ sync'[p].user = u) => RejectedAtStart(p)]_vars

\* the user was deleted while a Sync of the user was inside its transaction:
\* an INSERT of the call, well-formed as all its items are, was refused for
\* the missing users row
C19_Witness ==
    /\ Deleted("u1")
    /\ sync[1].user = "u1"
    /\ sync[1].pc = "tx"
    /\ sync[1].failed
    /\ WellFormed(sync[1].req.transactions)

\* the positions of the successful responses for device d
Successful(d) ==
    { i \in 1..Len(answers) : answers[i].device = d /\ answers[i].status = StatusOK }

\* C20: for any sequence and interleaving of Register calls with one device
\* identifier, at most one user row exists for the device, every successful
\* response carries the same user id, and exactly one response reports
\* is_new_user = true (once the calls have returned) while all later ones
\* report false.
C20_OneUserPerDevice ==
    \A d \in RaceDevices :
        /\ Cardinality({ r \in users : r.device_id = d }) <= 1
        /\ \A i, j \in Successful(d) : answers[i].user_id = answers[j].user_id
        /\ \A i, j \in Successful(d) :
              (i < j /\ answers[i].is_new_user) => ~answers[j].is_new_user
        /\ (Successful(d) # {} /\ \A p \in Procs : reg[p].pc = "idle")
              => \E i \in Successful(d) : answers[i].is_new_user

\* two calls found no row for the device: one created the user, the other's
\* INSERT was refused, and a call after them was given the same user
C20_Witness ==
    \E i, j, k \in 1..Len(answers) :
        /\ answers[i].status = StatusOK /\ answers[i].is_new_user
        /\ answers[j].status = StatusInternalServerError
        /\ answers[j].error = "Failed to create user"
        /\ i < k
        /\ answers[k].status = StatusOK /\ ~answers[k].is_new_user
        /\ answers[k].user_id = answers[i].user_id

-----------------------------------------------------------------------------
(* Properties of the on-demand endpoint *)

\* the rows of user_insights that GetUserInsights of user u selects
StoredInsights(u) == { r \in user_insights : r.user_id = u }

\* C21: after a successful on-demand GenerateInsights for a user with a
\* non-empty aggregate, the returned insights are in the insight store (and so
\* are returned by a following GetUserInsights of the user).
C21_OnDemandStored ==
    (gen.status = StatusOK /\ gen.analyzed > 0) =>
        \A k \in 1..Len(gen.insights) :
            \E r \in StoredInsights(gen.user) :
                /\ r.title = gen.insights[k].Title
                /\ r.message = gen.insights[k].Message
                /\ r.category = gen.insights[k].Category
                /\ r.priority = gen.insights[k].Priority

-----------------------------------------------------------------------------
(* Properties of the admin panel *)

\* the push tokens of the users in ids
TokensOf(ids) == { r.fcm_token : r \in { x \in users : x.id \in ids } }

\* the users with a transaction stored in the last 7 days
ActiveUsers ==
    { t.user_id : t \in { x \in transactions : x.created_at >= Now - 7 } }

\* C22: a Broadcast with target specific notifies only tokens of the users
\* listed in user_ids, target active only users with a transaction stored in
\* the last 7 days, and only target all reaches every user with a token;
\* specific with an empty list and an unrecognised target never notify all.
C22_BroadcastTargets ==
    /\ cast.target = "specific" => cast.tokens \subseteq TokensOf(cast.user_ids)
    /\ cast.target = "active" => cast.tokens \subseteq TokensOf(ActiveUsers)
    /\ cast.target \notin {"all", "active", "specific"} => cast.tokens = {}

-----------------------------------------------------------------------------
(* Properties of the order of a batch *)

\* the rows without their ids: every field the items give
Content(rows) ==
    { [user_id |-> r.user_id, sms_hash |-> r.sms_hash, amount |-> r.amount,
       type |-> r.type, category |-> r.category, date |-> r.date] : r \in rows }

Keys(rows) == { <<r.user_id, r.sms_hash>> : r \in rows }

\* items of the batch that share a content hash agree in every other field
Agreeing(b) ==
    \A j, k \in 1..Len(b) : b[j].sms_hash = b[k].sms_hash => b[j] = b[k]

-----------------------------------------------------------------------------
(* Properties of the scheduler's clock *)

\* the day, from one 06:00 to the next, that instant t lies in
SchedulerDay(t) == (t + 24 - 6) \div 24

\* C24: the scheduler starts one sweep per day: between two consecutive 06:00
\* instants it leaves the sleeping state once, also when the sweep finishes at
\* the instant it was started or the process starts exactly at 06:00.
C24_OneSweepPerDay ==
    \A i, j \in 1..Len(sched.runs) :
        i # j => SchedulerDay(sched.runs[i]) # SchedulerDay(sched.runs[j])

-----------------------------------------------------------------------------
(* Properties of the rate limiter *)

\* C26: between two consecutive resets of the counter map at most
\* requestsPerMinute requests of one client are passed on to the handlers, for
\* any interleaving of concurrently handled requests: no count is lost and no
\* error state is reached.
C26_LimitHolds ==
    /\ ~limiter.crashed
    /\ limiter.passed <= RequestsPerMinute

-----------------------------------------------------------------------------
(* Properties of the aggregate under concurrent commits *)

RECURSIVE SumValues(_)
\* the sum of the amounts of a breakdown
SumValues(f) ==
    IF DOMAIN f = {} THEN 0
    ELSE LET c == CHOOSE x \in DOMAIN f : TRUE
         IN f[c] + SumValues([x \in DOMAIN f \ {c} |-> f[x]])

\* the SAVINGS entry of a breakdown, 0 when it has none
SavingsEntry(f) == IF "SAVINGS" \in DOMAIN f THEN f["SAVINGS"] ELSE 0

\* the aggregate agrees with itself
Consistent(d) ==
    /\ SumValues(d.ByCategory) = d.TotalExpenses
    /\ d.SavingsDeposits = SavingsEntry(d.ByCategory)
    /\ d.TransactionCount = 0 =>
          /\ d.TotalExpenses = 0
          /\ d.SavingsDeposits = 0
          /\ SumValues(d.ByCategory) = 0

\* C27: every aggregate fetchSpendingData returns is internally consistent
\* (the breakdown sums to TotalExpenses, SavingsDeposits is the SAVINGS entry,
\* a count of 0 only with all of these 0), also when a Sync of the user
\* commits between the aggregate's queries; stated for the aggregates whose
\* three queries have all succeeded.
C27_AggregateConsistent ==
    (agg.pc = "returned" /\ agg.ok) => Consistent(agg.data)

-----------------------------------------------------------------------------
(* Properties of concurrent sweeps *)

\* C28: at most one sweep (RunDailyAnalysis) is in progress at any time: the
\* sweep an admin triggers never runs while the scheduled sweep runs.
C28_OneSweepAtATime ==
    ~(sweep.pc = "running" /\ manual.pc = "running")

-----------------------------------------------------------------------------
(* Properties of consent *)

\* the stored row of user u has consent_given = true
Consented(u) == \E r \in users : r.id = u /\ r.consent_given

\* C29: a user created by Register has consent false; Register of a registered
\* device never changes the consent flag (the flag of a stored row changes only
\* in an UpdateConsent of that user, to the value it carries); and every Sync
\* of a user whose flag is not true is rejected, before any UpdateConsent with
\* true and again after an UpdateConsent with false.
C29_ConsentGatesSync ==
    [][/\ \A r \in users' :
             (\A o \in users : o.id # r.id) => ~r.consent_given
       /\ \A o \in users, r \in users' :
             (o.id = r.id /\ o.consent_given # r.consent_given)
                => UpdateConsent(o.id, r.consent_given)
       /\ \A p \in Procs :
             (sync[p].pc = "idle" /\ sync'[p].pc # "idle" /\ ~Consented(sync'[p].user))
                => /\ sync'[p].pc = "done"
                   /\ sync'[p].status \in {StatusBadRequest, StatusForbidden}]_vars

\* a Sync with a well-formed body of a registered user who has not consented has
\* been answered 403, and nothing is stored for the user
C29_Witness ==
    \E p \in Procs :
       /\ sync[p].pc = "done"
       /\ sync[p].status = StatusForbidden
       /\ \E r \in users : r.id = sync[p].user /\ ~r.consent_given
       /\ ShouldBindJSON(sync[p].req)
       /\ { t \in transactions : t.user_id = sync[p].user } = {}

-----------------------------------------------------------------------------
(* Properties of the admin user listing *)

\* C30: in the admin user listing (asked without the synced filter) the
\* transaction_count of a user is the number of the user's stored transactions
\* and insights_count the number of the user's stored insights, for every
\* combination of the two, users with two or more insights included.
C30_CountsAreCounts ==
    (svc.fn = "GetUsers" /\ svc.arg.filter # "synced") =>
       \A row \in svc.out :
          /\ row.transaction_count =
                Cardinality({ x \in transactions : x.user_id = row.id })
          /\ row.insights_count =
                Cardinality({ x \in user_insights : x.user_id = row.id })

====
